---------------------------- MODULE Spec2Model ----------------------------
(***************************************************************************)
(* A model of the GitLab contribution tracker (app.py and the three pages  *)
(* bulk_summary, detailed_view, progress_view).                            *)
(*                                                                         *)
(* The program is a set of loosely coupled pieces; each piece is modelled  *)
(* as its own state machine over its own variables and has its own         *)
(* specification:                                                          *)
(*   SpecCount    count_items_by_date (app.py, bulk_summary)               *)
(*   SpecNotes    the note filters of the four files                       *)
(*   SpecCommits  fetch_commits (app.py)                                   *)
(*   SpecResolve  the project lists of the pages                           *)
(*   SpecGather   gather_user_data and its tasks (progress_view)           *)
(*   SpecBatch    fetch_all_users (progress_view), process_users           *)
(*   SpecDetailed gather_data (detailed_view)                              *)
(*   SpecAuthored fetch_merge_requests / fetch_issues of the pages         *)
(*   SpecGrade    calculate_grade, process_and_grade_data (progress_view)  *)
(*   SpecCache    the response cache (detailed_view)                       *)
(*   SpecTotals   the totals of the date window (app.py, bulk_summary)     *)
(*   SpecCap      the cap on the projects carried forward                  *)
(*   SpecMatcher  the commit matchers (detailed_view, app.py)              *)
(*   SpecPaging   fetch_json_with_pagination (progress_view)               *)
(*   SpecTally    the state tallies of process_project (progress_view)     *)
(*   SpecSession  the session of progress_view across script runs          *)
(*   SpecEntry    the username entry of app.py and detailed_view           *)
(*   SpecCommitCache  fetch_commits_by_author and its cache                *)
(*   SpecPool     the semaphore of fetch_all_users (progress_view)         *)
(* SpecPagingLive and SpecPoolLive are SpecPaging and SpecPool with weak   *)
(* fairness of their steps.                                                *)
(* Every specification leaves the variables of the other pieces at their   *)
(* idle values.                                                            *)
(***************************************************************************)
EXTENDS Integers, Sequences, FiniteSets, TLC

(***************************************************************************)
(* Bounds of the model.                                                    *)
(***************************************************************************)
\* the window bounds range over 1..MaxDay, item dates over 0..MaxDay+1
MaxDay == 2
\* longest list handed to count_items_by_date
MaxItems == 3
\* longest notes response
MaxNotes == 2
\* longest answer to one commits request
MaxResp == 2
\* longest answer of one project discovery channel
MaxChannel == 2
\* projects whose tasks run together in gather_user_data
NProj == 2
\* most commits, merge requests, issues one project returns
MaxPerProject == 1
\* most comments of the identity on one merge request or issue
MaxComments == 1

\* usernames of a batch query
MaxUsers == 2
\* most projects_to_process of one username
MaxTasks == 6

\* projects the discovery channels of the detailed view can return
MaxDvProjects == 2

\* longest answer to a merge request or issue request
MaxAuthored == 2

\* records of a graded batch
MaxBatch == 3
\* the metric values of a batch range over 0..MaxMetric and the GradeExtra
MaxMetric == 5

\* steps of the clock in one run of the cache
MaxTicks == 3



\* the longest list of projects one discovery channel returns
MaxListed == 51



\* the largest max_pages a caller of fetch_json_with_pagination passes
MaxPagesAsked == 3





\* usernames a user of the single-user pages may enter
MaxNames == 6

\* calls of one fetch function for the same project and user within the TTL
MaxCalls == 2

\* usernames of a CSV given to fetch_all_users (more than one batch)
MaxPool == 12

(***************************************************************************)
(* State.  The variables of each piece, and the tuples used for UNCHANGED. *)
(***************************************************************************)
VARIABLES
    \* count_items_by_date: its arguments, its result, called or not
    ci_items, ci_start, ci_end, ci_count, ci_pc,
    \* the note filters: the notes of one item, the identity, the notes kept,
    \* the count returned, the operation that ran
    nt_notes, nt_user_id, nt_kept, nt_count, nt_pc,
    \* fetch_commits: where it is, the identity's user record, user_commits,
    \* the emails still to query, all_commits of strategy 3, the list
    \* returned, the requests issued so far
    fc_pc, fc_info, fc_user_commits, fc_emails, fc_all_commits, fc_result, fc_requests,
    \* project resolution: the page that resolved, the answers of the three
    \* discovery channels, the resolved project list
    pr_pc, pr_owned, pr_contributed, pr_accessible, pr_projects,
    \* gather_user_data: where it is, projects_to_process, the five nonlocal
    \* totals, the record returned
    gu_pc, gu_projects, total_commits, total_mrs, total_issues, total_mr_comments,
    total_issue_comments, gu_record,
    \* process_project, per project: the fetch awaited, len(mrs), len(issues),
    \* the items left in the running comment loop, the total read before the
    \* await of total += await ...
    t_pc, t_mrs, t_issues, t_left, t_read,
    \* history: what each task received, whether a fetch of it raised
    gu_recv, gu_failed,
    \* fetch_all_users / process_users: where it is, len(usernames), the loop
    \* index, all_data, st.session_state.bulk_data
    b_pc, b_n, b_i, all_data, bulk_data,
    \* gather_user_data, per username: where it is, its own request (waiting
    \* for a connection or in flight), the page requested, its result
    u_pc, u_req, u_page, u_result,
    \* the process_project tasks of a username: how many there are, how many
    \* have a request waiting, a request in flight, have ended
    tk_n, tk_wait, tk_flight, tk_done,
    \* gather_data (detailed_view): where it is, whether the user has an
    \* email, the answers of the three discovery channels, projects, the
    \* projects left in the running loop, the commit strategy running,
    \* whether verified_commits is non-empty, the request of the comment
    \* loop, the valid keys of the cache, the error that reached the page
    dv_pc, dv_email, dv_owned, dv_contributed, dv_accessible, dv_projects, dv_todo,
    dv_strategy, dv_verified, dv_sub, dv_cache, dv_error,
    \* history: the requests that were answered 401, the answers to the
    \* three discovery requests
    dv_seen401, dv_answer,
    \* the merge request / issue fetch of one identity: the function that
    \* ran, the identity's id, the list the server answers, the list returned
    au_pc, au_user_id, au_items, au_result,
    \* process_and_grade_data: called or not, the metric column of the
    \* batch, its mean, the grade column
    gr_pc, gr_values, gr_mean, gr_grades,
    \* the response cache (detailed_view): the clock in seconds and how often
    \* it advanced, st.session_state.cache and cache_timestamps for one key,
    \* the last operation, what get_from_cache returned
    ch_now, ch_ticks, ch_cache, ch_timestamps, ch_pc, ch_result,
    \* the totals of the date window (app.py, bulk_summary): contrib_data as
    \* the sequence of its values, the window, the five totals
    tt_pc, tt_data, tt_start, tt_end, tt_commits, tt_mrs, tt_issues,
    tt_mr_comments, tt_issue_comments,
    \* the cap on the projects carried forward: the lists of project ids the
    \* channels returned, the projects carried forward, whether the page
    \* showed the warning about the limit
    cp_pc, cp_owned, cp_contributed, cp_accessible, cp_projects, cp_warned,
    \* is_commit_by_author (detailed_view): the commit, the user, the answer
    mt_pc, mt_commit, mt_user, mt_result,
    \* fetch_json_with_pagination (progress_view): where the coroutine is,
    \* page, max_pages, all_data, the pages requested and the responses
    \* received so far
    pg_pc, pg_page, pg_max_pages, pg_all_data, pg_requests, pg_received,
    \* the state tallies of process_project (progress_view): the states of
    \* the merge requests and issues fetched, total_mrs and total_issues
    tl_pc, tl_mrs, tl_issues, tl_total_mrs, tl_total_issues,
    \* the page of progress_view: the usernames of the CSV and the dates of
    \* the widgets, session_state fetched_data (as the parameters it was
    \* fetched for) and data_hash, the results on the page, the buttons on
    \* the page, whether st.rerun() is pending
    pv_usernames, pv_start, pv_end, pv_fetched_data, pv_data_hash, pv_displayed,
    pv_buttons, pv_rerun,
    \* the single-user pages (app.py, detailed_view): the page, the text of
    \* the username input, session_state fetched_username / last_username and
    \* fetched_user_data / user_data (as the username fetched), the user
    \* whose data is on the page, whether st.rerun() is pending, how the
    \* fetch of the last run ended ("none" when the run did not fetch)
    en_page, en_username, en_fetched_username, en_user_data, en_displayed, en_rerun,
    en_fetch,
    \* fetch_commits_by_author and fetch_merge_requests_by_author with the
    \* cache (detailed_view), for one project and user within the TTL: where
    \* the commits call is, whether user_email is set, the calls made, the
    \* strategy, whether verified_commits is non-empty, whether every request
    \* of the call raised so far, the cache entries, how the last call of
    \* each function ended
    cc_pc, cc_email, cc_calls, cc_strategy, cc_verified, cc_all_raised, cc_commits_entry,
    cc_last, cc_mr_calls, cc_mrs_entry, cc_mr_last,
    \* the semaphore of fetch_all_users (progress_view), by numbers of tasks:
    \* where fetch_all_users is, len(usernames), the start of the batch, the
    \* value of the semaphore, the tasks of the batch that wait for it, hold
    \* it, have ended, how often each username was given a task, len(all_data)
    sm_pc, sm_n, sm_i, sm_value, sm_waiting, sm_holding, sm_ended, sm_attempts, sm_records

varsCount == <<ci_items, ci_start, ci_end, ci_count, ci_pc>>
varsNotes == <<nt_notes, nt_user_id, nt_kept, nt_count, nt_pc>>

varsCommits == <<fc_pc, fc_info, fc_user_commits, fc_emails, fc_all_commits, fc_result,
                 fc_requests>>

varsResolve == <<pr_pc, pr_owned, pr_contributed, pr_accessible, pr_projects>>

varsGather == <<gu_pc, gu_projects, total_commits, total_mrs, total_issues,
                total_mr_comments, total_issue_comments, gu_record, t_pc, t_mrs, t_issues,
                t_left, t_read, gu_recv, gu_failed>>

varsBatch == <<b_pc, b_n, b_i, all_data, bulk_data, u_pc, u_req, u_page, u_result, tk_n,
                 tk_wait, tk_flight, tk_done>>

varsDetailed == <<dv_pc, dv_email, dv_owned, dv_contributed, dv_accessible, dv_projects,
                    dv_todo, dv_strategy, dv_verified, dv_sub, dv_cache, dv_error,
                    dv_seen401, dv_answer>>

varsAuthored == <<au_pc, au_user_id, au_items, au_result>>

varsGrade == <<gr_pc, gr_values, gr_mean, gr_grades>>

varsCache == <<ch_now, ch_ticks, ch_cache, ch_timestamps, ch_pc, ch_result>>

varsTotals == <<tt_pc, tt_data, tt_start, tt_end, tt_commits, tt_mrs, tt_issues,
                  tt_mr_comments, tt_issue_comments>>

varsCap == <<cp_pc, cp_owned, cp_contributed, cp_accessible, cp_projects, cp_warned>>

varsMatcher == <<mt_pc, mt_commit, mt_user, mt_result>>

varsPaging == <<pg_pc, pg_page, pg_max_pages, pg_all_data, pg_requests, pg_received>>

varsTally == <<tl_pc, tl_mrs, tl_issues, tl_total_mrs, tl_total_issues>>

varsSession == <<pv_usernames, pv_start, pv_end, pv_fetched_data, pv_data_hash,
                   pv_displayed, pv_buttons, pv_rerun>>

varsEntry == <<en_page, en_username, en_fetched_username, en_user_data,
               en_displayed, en_rerun, en_fetch>>

varsCommitCache == <<cc_pc, cc_email, cc_calls, cc_strategy, cc_verified, cc_all_raised,
                       cc_commits_entry, cc_last, cc_mr_calls, cc_mrs_entry,
                       cc_mr_last>>

varsPool == <<sm_pc, sm_n, sm_i, sm_value, sm_waiting, sm_holding, sm_ended,
                sm_attempts, sm_records>>

vars == <<varsCount, varsNotes, varsCommits, varsResolve, varsGather, varsBatch,
    varsDetailed, varsAuthored, varsGrade, varsCache, varsTotals, varsCap, varsMatcher,
    varsPaging, varsTally, varsSession, varsEntry, varsCommitCache, varsPool>>

othersCount == <<varsNotes, varsCommits, varsResolve, varsGather, varsBatch,
    varsDetailed, varsAuthored, varsGrade, varsCache, varsTotals, varsCap, varsMatcher,
    varsPaging, varsTally, varsSession, varsEntry, varsCommitCache, varsPool>>
othersNotes == <<varsCount, varsCommits, varsResolve, varsGather, varsBatch,
    varsDetailed, varsAuthored, varsGrade, varsCache, varsTotals, varsCap, varsMatcher,
    varsPaging, varsTally, varsSession, varsEntry, varsCommitCache, varsPool>>
othersCommits == <<varsCount, varsNotes, varsResolve, varsGather, varsBatch,
    varsDetailed, varsAuthored, varsGrade, varsCache, varsTotals, varsCap, varsMatcher,
    varsPaging, varsTally, varsSession, varsEntry, varsCommitCache, varsPool>>
othersResolve == <<varsCount, varsNotes, varsCommits, varsGather, varsBatch,
    varsDetailed, varsAuthored, varsGrade, varsCache, varsTotals, varsCap, varsMatcher,
    varsPaging, varsTally, varsSession, varsEntry, varsCommitCache, varsPool>>
othersGather == <<varsCount, varsNotes, varsCommits, varsResolve, varsBatch,
    varsDetailed, varsAuthored, varsGrade, varsCache, varsTotals, varsCap, varsMatcher,
    varsPaging, varsTally, varsSession, varsEntry, varsCommitCache, varsPool>>
othersBatch == <<varsCount, varsNotes, varsCommits, varsResolve, varsGather,
    varsDetailed, varsAuthored, varsGrade, varsCache, varsTotals, varsCap, varsMatcher,
    varsPaging, varsTally, varsSession, varsEntry, varsCommitCache, varsPool>>
othersDetailed == <<varsCount, varsNotes, varsCommits, varsResolve, varsGather,
    varsBatch, varsAuthored, varsGrade, varsCache, varsTotals, varsCap, varsMatcher,
    varsPaging, varsTally, varsSession, varsEntry, varsCommitCache, varsPool>>
othersAuthored == <<varsCount, varsNotes, varsCommits, varsResolve, varsGather,
    varsBatch, varsDetailed, varsGrade, varsCache, varsTotals, varsCap, varsMatcher,
    varsPaging, varsTally, varsSession, varsEntry, varsCommitCache, varsPool>>
othersGrade == <<varsCount, varsNotes, varsCommits, varsResolve, varsGather, varsBatch,
    varsDetailed, varsAuthored, varsCache, varsTotals, varsCap, varsMatcher, varsPaging,
    varsTally, varsSession, varsEntry, varsCommitCache, varsPool>>
othersCache == <<varsCount, varsNotes, varsCommits, varsResolve, varsGather, varsBatch,
    varsDetailed, varsAuthored, varsGrade, varsTotals, varsCap, varsMatcher, varsPaging,
    varsTally, varsSession, varsEntry, varsCommitCache, varsPool>>
othersTotals == <<varsCount, varsNotes, varsCommits, varsResolve, varsGather, varsBatch,
    varsDetailed, varsAuthored, varsGrade, varsCache, varsCap, varsMatcher, varsPaging,
    varsTally, varsSession, varsEntry, varsCommitCache, varsPool>>
othersCap == <<varsCount, varsNotes, varsCommits, varsResolve, varsGather, varsBatch,
    varsDetailed, varsAuthored, varsGrade, varsCache, varsTotals, varsMatcher,
    varsPaging, varsTally, varsSession, varsEntry, varsCommitCache, varsPool>>
othersMatcher == <<varsCount, varsNotes, varsCommits, varsResolve, varsGather,
    varsBatch, varsDetailed, varsAuthored, varsGrade, varsCache, varsTotals, varsCap,
    varsPaging, varsTally, varsSession, varsEntry, varsCommitCache, varsPool>>
othersPaging == <<varsCount, varsNotes, varsCommits, varsResolve, varsGather, varsBatch,
    varsDetailed, varsAuthored, varsGrade, varsCache, varsTotals, varsCap, varsMatcher,
    varsTally, varsSession, varsEntry, varsCommitCache, varsPool>>
othersTally == <<varsCount, varsNotes, varsCommits, varsResolve, varsGather, varsBatch,
    varsDetailed, varsAuthored, varsGrade, varsCache, varsTotals, varsCap, varsMatcher,
    varsPaging, varsSession, varsEntry, varsCommitCache, varsPool>>
othersSession == <<varsCount, varsNotes, varsCommits, varsResolve, varsGather,
    varsBatch, varsDetailed, varsAuthored, varsGrade, varsCache, varsTotals, varsCap,
    varsMatcher, varsPaging, varsTally, varsEntry, varsCommitCache, varsPool>>
othersEntry == <<varsCount, varsNotes, varsCommits, varsResolve, varsGather, varsBatch,
    varsDetailed, varsAuthored, varsGrade, varsCache, varsTotals, varsCap, varsMatcher,
    varsPaging, varsTally, varsSession, varsCommitCache, varsPool>>
othersCommitCache == <<varsCount, varsNotes, varsCommits, varsResolve, varsGather,
    varsBatch, varsDetailed, varsAuthored, varsGrade, varsCache, varsTotals, varsCap,
    varsMatcher, varsPaging, varsTally, varsSession, varsEntry, varsPool>>
othersPool == <<varsCount, varsNotes, varsCommits, varsResolve, varsGather, varsBatch,
    varsDetailed, varsAuthored, varsGrade, varsCache, varsTotals, varsCap, varsMatcher,
    varsPaging, varsTally, varsSession, varsEntry, varsCommitCache>>

(***************************************************************************)
(* Generic helpers.                                                        *)
(***************************************************************************)
SeqsUpTo(S, n) == UNION {[1..k -> S] : k \in 0..n}

Range(s) == {s[i] : i \in DOMAIN s}

(***************************************************************************)
(* count_items_by_date                                                     *)
(*                                                                         *)
(* A created_at value is what the JSON field holds: None, the empty        *)
(* string, a string dateutil cannot parse, or an ISO timestamp             *)
(* "<date>T<time>".  An item may also lack the field.                      *)
(***************************************************************************)
WindowDays == 1..MaxDay
ItemDays == 0..(MaxDay + 1)
TimesOfDay == {"00:00:00", "23:59:59"}

IsoStamps == [kind : {"iso"}, date : ItemDays, time : TimesOfDay]
OddStamps == [kind : {"none", "empty", "garbage"}, date : {0}, time : {""}]
CreatedAtValues == IsoStamps \cup OddStamps

\* an item with the field, or an item without it
Items == [has_created_at : {TRUE}, created_at : CreatedAtValues]
           \cup [has_created_at : {FALSE}, created_at : {[kind |-> "none", date |-> 0, time |-> ""]}]

\* Python truthiness of the field's value: None and "" are falsy
Truthy(v) == v.kind \notin {"none", "empty"}

\* parser.parse(s) raises on a string that is no date
ParseRaises(v) == v.kind = "garbage"

\* parser.parse(s).date(): the date part of the timestamp, the time dropped
ParseDate(v) == v.date

ItemCountedStrictEnd(item, start_date, end_date) ==
    /\ item.has_created_at
    /\ Truthy(item.created_at)
    /\ ~ParseRaises(item.created_at)
    /\ start_date <= ParseDate(item.created_at)
    /\ ParseDate(item.created_at) < end_date

\* the body of the loop: does this item add one to count?
ItemCounted(item, start_date, end_date) ==
    /\ item.has_created_at
    /\ Truthy(item.created_at)
    /\ ~ParseRaises(item.created_at)
    /\ start_date <= ParseDate(item.created_at)
    /\ ParseDate(item.created_at) <= end_date

\* the loop with the try around it instead of inside it: the first item whose
\* created_at raises ends the count
RECURSIVE CountTryOutsideLoop(_, _, _)
CountTryOutsideLoop(items, start_date, end_date) ==
    IF items = <<>> THEN 0
    ELSE IF /\ Head(items).has_created_at
            /\ Truthy(Head(items).created_at)
            /\ ParseRaises(Head(items).created_at)
         THEN 0
         ELSE (IF ItemCounted(Head(items), start_date, end_date) THEN 1 ELSE 0)
              + CountTryOutsideLoop(Tail(items), start_date, end_date)

RECURSIVE count_items_by_date(_, _, _)
count_items_by_date(items, start_date, end_date) ==
    IF items = <<>> THEN 0
    ELSE (IF ItemCounted(Head(items), start_date, end_date) THEN 1 ELSE 0)
         + count_items_by_date(Tail(items), start_date, end_date)

CountIdle ==
    /\ ci_items = <<>>
    /\ ci_start = 0
    /\ ci_end = 0
    /\ ci_count = 0
    /\ ci_pc = "idle"

InitCount ==
    /\ ci_items \in SeqsUpTo(Items, MaxItems)
    /\ ci_start \in WindowDays
    /\ ci_end \in WindowDays
    /\ ci_start <= ci_end
    /\ ci_count = 0
    /\ ci_pc = "ready"

CountCall ==
    /\ ci_pc = "ready"
    /\ ci_count' = count_items_by_date(ci_items, ci_start, ci_end)
    /\ ci_pc' = "done"
    /\ UNCHANGED <<ci_items, ci_start, ci_end>>
    /\ UNCHANGED othersCount

NextCount == CountCall

\* C4: count_items_by_date counts an item if and only if the date of its
\* created_at lies in [start_date, end_date], both ends inclusive: the result
\* is the number of items carrying a timestamp whose date d satisfies
\* start_date <= d <= end_date; an item dated start_date or end_date counts,
\* one dated a day before start_date or a day after end_date does not.
C4_InclusiveWindow ==
    ci_pc = "done" =>
        /\ ci_count = Cardinality({i \in DOMAIN ci_items :
                /\ ci_items[i].has_created_at
                /\ ci_items[i].created_at.kind = "iso"
                /\ ci_items[i].created_at.date \in ci_start..ci_end})
        /\ \A d \in {ci_start, ci_end} : \A t \in TimesOfDay :
               LET it == [has_created_at |-> TRUE,
                          created_at |-> [kind |-> "iso", date |-> d, time |-> t]]
               IN  ci_items = <<it>> => ci_count = 1
        /\ \A d \in {ci_start - 1, ci_end + 1} : \A t \in TimesOfDay :
               LET it == [has_created_at |-> TRUE,
                          created_at |-> [kind |-> "iso", date |-> d, time |-> t]]
               IN  ci_items = <<it>> => ci_count = 0

C4_Witness ==
    /\ ci_pc = "done"
    /\ ci_start < ci_end
    /\ Len(ci_items) = 3
    /\ ci_items[1].has_created_at /\ ci_items[1].created_at.kind = "iso"
    /\ ci_items[1].created_at.date = ci_start
    /\ ci_items[2].has_created_at /\ ci_items[2].created_at.kind = "iso"
    /\ ci_items[2].created_at.date = ci_end
    /\ ci_items[2].created_at.time = "23:59:59"
    /\ ci_items[3].has_created_at /\ ci_items[3].created_at.kind = "iso"
    /\ ci_items[3].created_at.date = ci_end + 1
    /\ ci_count = 2

\* created_at is missing, None, the empty string, or no date
Malformed(item) ==
    \/ ~item.has_created_at
    \/ item.created_at.kind \in {"none", "empty", "garbage"}

\* C17: an item whose created_at is missing, empty or unparseable is never
\* counted by count_items_by_date, and it does not stop the remaining items
\* from being counted: the result is the number of well-formed items dated
\* in the window, wherever the malformed items stand in the list.
C17_MalformedItemsSkipped ==
    ci_pc = "done" =>
        LET counted == {i \in DOMAIN ci_items :
                          /\ ~Malformed(ci_items[i])
                          /\ ci_start <= ci_items[i].created_at.date
                          /\ ci_items[i].created_at.date <= ci_end}
        IN  /\ ci_count = Cardinality(counted)
            /\ ci_count <= Cardinality({i \in DOMAIN ci_items : ~Malformed(ci_items[i])})

C17_Witness ==
    /\ ci_pc = "done"
    /\ Len(ci_items) = 3
    /\ ci_items[1].has_created_at /\ ci_items[1].created_at.kind = "garbage"
    /\ ~ci_items[2].has_created_at
    /\ ~Malformed(ci_items[3])
    /\ ci_items[3].created_at.date = ci_start
    /\ ci_count = 1

(***************************************************************************)
(* The note filters: fetch_issue_comments / fetch_mr_comments (app.py,     *)
(* bulk_summary), fetch_comments (progress_view) and the note loops of     *)
(* fetch_mr_comments_by_user / fetch_issue_comments_by_user                *)
(* (detailed_view).                                                        *)
(*                                                                         *)
(* A note carries author.id (0 stands for a note without author or id:     *)
(* .get gives None, which equals no user id), the JSON value of system     *)
(* (true, false, null, or the key missing) and a body.                     *)
(***************************************************************************)
UserIds == 1..2
SystemValues == {"true", "false", "null", "missing"}
Bodies == {"text", "   ", ""}

Notes == [author_id : {0} \cup UserIds, system : SystemValues, body : Bodies]

\* note.get("system", False)
GetSystem(note) == IF note.system = "missing" THEN "false" ELSE note.system

\* Python truthiness of a JSON true / false / null
JsonTruthy(v) == v = "true"

\* str.strip() of the body
Strip(body) == IF body = "   " THEN "" ELSE body

IsUserCommentAppNoSystemCheck(note, user_id) == note.author_id = user_id

\* app.py: author.id == user_id and comment.get("system", False) is False
IsUserCommentApp(note, user_id) ==
    /\ note.author_id = user_id
    /\ GetSystem(note) = "false"

\* bulk_summary, detailed_view: author.id == user_id and not note.get("system", False)
IsUserComment(note, user_id) ==
    /\ note.author_id = user_id
    /\ ~JsonTruthy(GetSystem(note))

\* progress_view: ... and note.get("body", "").strip()
IsUserCommentProgress(note, user_id) ==
    /\ note.author_id = user_id
    /\ ~JsonTruthy(GetSystem(note))
    /\ Strip(note.body) # ""

\* [comment for comment in all_comments if ...], app.py
RECURSIVE FilterApp(_, _)
FilterApp(notes, user_id) ==
    IF notes = <<>> THEN <<>>
    ELSE (IF IsUserCommentApp(Head(notes), user_id) THEN <<Head(notes)>> ELSE <<>>)
         \o FilterApp(Tail(notes), user_id)

\* [comment for comment in all_comments if ...], bulk_summary; the note loop
\* of detailed_view
RECURSIVE FilterNotes(_, _)
FilterNotes(notes, user_id) ==
    IF notes = <<>> THEN <<>>
    ELSE (IF IsUserComment(Head(notes), user_id) THEN <<Head(notes)>> ELSE <<>>)
         \o FilterNotes(Tail(notes), user_id)

\* the counting loop of fetch_comments, progress_view
RECURSIVE CountComments(_, _)
CountComments(notes, user_id) ==
    IF notes = <<>> THEN 0
    ELSE (IF IsUserCommentProgress(Head(notes), user_id) THEN 1 ELSE 0)
         + CountComments(Tail(notes), user_id)

NotesIdle ==
    /\ nt_notes = <<>>
    /\ nt_user_id = 0
    /\ nt_kept = <<>>
    /\ nt_count = 0
    /\ nt_pc = "idle"

InitNotes ==
    /\ nt_notes \in SeqsUpTo(Notes, MaxNotes)
    /\ nt_user_id \in UserIds
    /\ nt_kept = <<>>
    /\ nt_count = 0
    /\ nt_pc = "ready"

\* app.py fetch_issue_comments: the notes request answers or raises (-> [])
fetch_issue_comments_app ==
    /\ nt_pc = "ready"
    /\ \E ok \in BOOLEAN :
         nt_kept' = IF ok THEN FilterApp(nt_notes, nt_user_id) ELSE <<>>
    /\ nt_count' = Len(nt_kept')
    /\ nt_pc' = "app.fetch_issue_comments"
    /\ UNCHANGED <<nt_notes, nt_user_id>>
    /\ UNCHANGED othersNotes

\* app.py fetch_mr_comments
fetch_mr_comments_app ==
    /\ nt_pc = "ready"
    /\ \E ok \in BOOLEAN :
         nt_kept' = IF ok THEN FilterApp(nt_notes, nt_user_id) ELSE <<>>
    /\ nt_count' = Len(nt_kept')
    /\ nt_pc' = "app.fetch_mr_comments"
    /\ UNCHANGED <<nt_notes, nt_user_id>>
    /\ UNCHANGED othersNotes

\* bulk_summary fetch_issue_comments
fetch_issue_comments_bulk ==
    /\ nt_pc = "ready"
    /\ \E ok \in BOOLEAN :
         nt_kept' = IF ok THEN FilterNotes(nt_notes, nt_user_id) ELSE <<>>
    /\ nt_count' = Len(nt_kept')
    /\ nt_pc' = "bulk.fetch_issue_comments"
    /\ UNCHANGED <<nt_notes, nt_user_id>>
    /\ UNCHANGED othersNotes

\* bulk_summary fetch_mr_comments
fetch_mr_comments_bulk ==
    /\ nt_pc = "ready"
    /\ \E ok \in BOOLEAN :
         nt_kept' = IF ok THEN FilterNotes(nt_notes, nt_user_id) ELSE <<>>
    /\ nt_count' = Len(nt_kept')
    /\ nt_pc' = "bulk.fetch_mr_comments"
    /\ UNCHANGED <<nt_notes, nt_user_id>>
    /\ UNCHANGED othersNotes

\* progress_view fetch_comments: returns the count only (a request that
\* does not answer 200 gives no notes; an exception leaves the function)
fetch_comments_progress ==
    /\ nt_pc = "ready"
    /\ \E ok \in BOOLEAN :
         nt_count' = IF ok THEN CountComments(nt_notes, nt_user_id) ELSE 0
    /\ nt_kept' = <<>>
    /\ nt_pc' = "progress.fetch_comments"
    /\ UNCHANGED <<nt_notes, nt_user_id>>
    /\ UNCHANGED othersNotes

\* detailed_view fetch_mr_comments_by_user: the notes of one merge request
\* are appended to user_comments (a failed notes request: continue)
mr_notes_detailed ==
    /\ nt_pc = "ready"
    /\ \E ok \in BOOLEAN :
         nt_kept' = IF ok THEN nt_kept \o FilterNotes(nt_notes, nt_user_id) ELSE nt_kept
    /\ nt_count' = Len(nt_kept')
    /\ nt_pc' = "detailed.fetch_mr_comments_by_user"
    /\ UNCHANGED <<nt_notes, nt_user_id>>
    /\ UNCHANGED othersNotes

\* detailed_view fetch_issue_comments_by_user: the notes of one issue
issue_notes_detailed ==
    /\ nt_pc = "ready"
    /\ \E ok \in BOOLEAN :
         nt_kept' = IF ok THEN nt_kept \o FilterNotes(nt_notes, nt_user_id) ELSE nt_kept
    /\ nt_count' = Len(nt_kept')
    /\ nt_pc' = "detailed.fetch_issue_comments_by_user"
    /\ UNCHANGED <<nt_notes, nt_user_id>>
    /\ UNCHANGED othersNotes

NextNotes ==
    \/ fetch_issue_comments_app
    \/ fetch_mr_comments_app
    \/ fetch_issue_comments_bulk
    \/ fetch_mr_comments_bulk
    \/ fetch_comments_progress
    \/ mr_notes_detailed
    \/ issue_notes_detailed

\* the notes of the response that are the identity's own text comments
OwnTextNotes == {i \in DOMAIN nt_notes :
                    nt_notes[i].author_id = nt_user_id /\ nt_notes[i].system # "true"}

\* C5: a note whose system flag is true is never counted as a comment of the
\* identity, even when its author.id is the identity's id: no operation keeps
\* such a note, and the count an operation returns never exceeds the number
\* of the identity's notes that are not system notes.
C5_SystemNotesNeverCounted ==
    nt_pc \notin {"idle", "ready"} =>
        /\ \A i \in DOMAIN nt_kept : nt_kept[i].system # "true"
        /\ nt_count <= Cardinality(OwnTextNotes)

C5_Witness ==
    /\ nt_pc = "progress.fetch_comments"
    /\ Len(nt_notes) = 2
    /\ nt_notes[1] = [author_id |-> nt_user_id, system |-> "true", body |-> "text"]
    /\ nt_notes[2] = [author_id |-> nt_user_id, system |-> "false", body |-> "text"]
    /\ nt_count = 1

(***************************************************************************)
(* Strings.  A string is a sequence of one-character strings, so that      *)
(* str.lower() and the substring test `a in b` are computed, not assumed.  *)
(***************************************************************************)
LowerChar(c) ==
    CASE c = "A" -> "a"
      [] c = "B" -> "b"
      [] c = "L" -> "l"
      [] c = "X" -> "x"
      [] c = "Z" -> "z"
      [] OTHER -> c

\* str.lower()
Lower(s) == [i \in DOMAIN s |-> LowerChar(s[i])]

\* a in b, for strings
IsSubstr(a, b) ==
    \E k \in 0..(Len(b) - Len(a)) : \A i \in 1..Len(a) : b[k + i] = a[i]

(***************************************************************************)
(* fetch_commits (app.py; progress_view and bulk_summary follow the same   *)
(* three strategies and end with the same de-duplication loop).            *)
(*                                                                         *)
(* The repository holds the commits of Repo.  A commits request answers    *)
(* with some list of them (what the server's filter returns is the         *)
(* server's business) or raises.                                           *)
(***************************************************************************)
Repo == <<
    [id |-> 1, author_name |-> <<"A","l"," ","B">>, author_email |-> <<"a","@","x">>,
               committer_name |-> <<"A","l"," ","B">>, committer_email |-> <<"a","@","x">>],
    [id |-> 2, author_name |-> <<"Z","e","d">>, author_email |-> <<"z","@","y">>,
               committer_name |-> <<"b","o","t">>, committer_email |-> <<"b","@","x">>],
    [id |-> 3, author_name |-> <<"a","l",".","b">>, author_email |-> <<"A","@","X">>,
               committer_name |-> <<"b","o","t">>, committer_email |-> <<"b","@","x">>] >>

CommitIds == DOMAIN Repo

\* what GET /users/:id returns for the identity; <<>> is a key that is
\* missing or null
UserInfos == {
    [name |-> <<"A","l"," ","B">>, username |-> <<"a","l","b">>,
     email |-> <<"a","@","x">>, public_email |-> <<>>],
    [name |-> <<"Z","e","d">>, username |-> <<"z","e","d">>,
     email |-> <<"z","@","y">>, public_email |-> <<"z","@","y">>],
    [name |-> <<"B","o","b">>, username |-> <<"b","o","b">>,
     email |-> <<"b","o","b","@","x">>, public_email |-> <<"B","@","X">>] }

\* the answers of one commits request: a list of commits
CommitLists == SeqsUpTo(CommitIds, MaxResp)

\* [email for email in [email, public_email] if email]
UserEmails(info) ==
    (IF info.email # <<>> THEN <<info.email>> ELSE <<>>)
    \o (IF info.public_email # <<>> THEN <<info.public_email>> ELSE <<>>)

\* strategy 3: name_match or email_match for one commit
ManualMatch(commit, info) ==
    LET user_name == Lower(info.name)
        user_username == Lower(info.username)
        emails == UserEmails(info)
        user_emails == {Lower(emails[i]) : i \in DOMAIN emails}
        author_name == Lower(commit.author_name)
        author_email == Lower(commit.author_email)
        committer_name == Lower(commit.committer_name)
        committer_email == Lower(commit.committer_email)
        name_match == \/ IsSubstr(user_name, author_name)
                      \/ IsSubstr(user_username, author_name)
                      \/ IsSubstr(user_name, committer_name)
                      \/ IsSubstr(user_username, committer_name)
        email_match == \E e \in user_emails : e \in {author_email, committer_email}
    IN  name_match \/ email_match

\* for commit in all_commits: if name_match or email_match: append
RECURSIVE ManualFilter(_, _)
ManualFilter(all_commits, info) ==
    IF all_commits = <<>> THEN <<>>
    ELSE (IF ManualMatch(Repo[Head(all_commits)], info) THEN <<Head(all_commits)>> ELSE <<>>)
         \o ManualFilter(Tail(all_commits), info)

RemoveDuplicatesKeepAll(commits) == commits

\* the seen_ids loop: keep the first commit of every id
RECURSIVE RemoveDuplicatesFrom(_, _)
RemoveDuplicatesFrom(commits, seen_ids) ==
    IF commits = <<>> THEN <<>>
    ELSE IF Head(commits) \in seen_ids
         THEN RemoveDuplicatesFrom(Tail(commits), seen_ids)
         ELSE <<Head(commits)>>
              \o RemoveDuplicatesFrom(Tail(commits), seen_ids \cup {Head(commits)})

RemoveDuplicates(commits) == RemoveDuplicatesFrom(commits, {})

CommitsIdle ==
    /\ fc_pc = "idle"
    /\ fc_info = <<>>
    /\ fc_user_commits = <<>>
    /\ fc_emails = <<>>
    /\ fc_all_commits = <<>>
    /\ fc_result = <<>>
    /\ fc_requests = <<>>

\* fetch_commits is called: user_commits = [], and the first request is out
InitCommits ==
    /\ fc_pc = "strategy1"
    /\ fc_info \in UserInfos
    /\ fc_user_commits = <<>>
    /\ fc_emails = <<>>
    /\ fc_all_commits = <<>>
    /\ fc_result = <<>>
    /\ fc_requests = <<"author">>

\* the code after strategy 2 without the guard "if not user_commits"
AfterStrategy2Unguarded(user_commits) ==
    /\ fc_pc' = "strategy3"
    /\ fc_requests' = Append(fc_requests, "all")
    /\ fc_result' = fc_result

\* the code after strategy 2: strategy 3's first request if nothing was
\* collected, else the de-duplication and the return
AfterStrategy2(user_commits) ==
    IF user_commits = <<>>
    THEN /\ fc_pc' = "strategy3"
         /\ fc_requests' = Append(fc_requests, "all")
         /\ fc_result' = fc_result
    ELSE /\ fc_pc' = "returned"
         /\ fc_requests' = fc_requests
         /\ fc_result' = RemoveDuplicates(user_commits)

\* strategy 1 answers (or raises: pass); the user request of strategy 2 goes out
Strategy1 ==
    /\ fc_pc = "strategy1"
    /\ \E ok \in BOOLEAN, commits \in CommitLists :
         fc_user_commits' = IF ok THEN fc_user_commits \o commits ELSE fc_user_commits
    /\ fc_pc' = "strategy2_user"
    /\ fc_requests' = Append(fc_requests, "user")
    /\ UNCHANGED <<fc_info, fc_emails, fc_all_commits, fc_result>>
    /\ UNCHANGED othersCommits

\* the user request of strategy 2 answers (or raises: pass)
Strategy2User ==
    /\ fc_pc = "strategy2_user"
    /\ \E ok \in BOOLEAN :
         LET user_emails == IF ok THEN UserEmails(fc_info) ELSE <<>>
         IN  /\ fc_emails' = user_emails
             /\ IF user_emails # <<>>
                THEN /\ fc_pc' = "strategy2_email"
                     /\ fc_requests' = Append(fc_requests, "author_email")
                     /\ fc_result' = fc_result
                ELSE AfterStrategy2(fc_user_commits)
    /\ UNCHANGED <<fc_info, fc_user_commits, fc_all_commits>>
    /\ UNCHANGED othersCommits

\* the request for one email answers (or raises: continue)
Strategy2Email ==
    /\ fc_pc = "strategy2_email"
    /\ \E ok \in BOOLEAN, commits \in CommitLists :
         LET user_commits == IF ok THEN fc_user_commits \o commits ELSE fc_user_commits
         IN  /\ fc_user_commits' = user_commits
             /\ fc_emails' = Tail(fc_emails)
             /\ IF Tail(fc_emails) # <<>>
                THEN /\ fc_pc' = "strategy2_email"
                     /\ fc_requests' = Append(fc_requests, "author_email")
                     /\ fc_result' = fc_result
                ELSE AfterStrategy2(user_commits)
    /\ UNCHANGED <<fc_info, fc_all_commits>>
    /\ UNCHANGED othersCommits

\* the unfiltered request of strategy 3 answers; the user request goes out
\* (or it raises: pass, and the function returns)
Strategy3All ==
    /\ fc_pc = "strategy3"
    /\ \E ok \in BOOLEAN, commits \in CommitLists :
         IF ok
         THEN /\ fc_all_commits' = commits
              /\ fc_pc' = "strategy3_user"
              /\ fc_requests' = Append(fc_requests, "user")
              /\ fc_result' = fc_result
         ELSE /\ fc_all_commits' = fc_all_commits
              /\ fc_pc' = "returned"
              /\ fc_requests' = fc_requests
              /\ fc_result' = RemoveDuplicates(fc_user_commits)
    /\ UNCHANGED <<fc_info, fc_user_commits, fc_emails>>
    /\ UNCHANGED othersCommits

\* the user request of strategy 3 answers: the manual filter runs (or it
\* raises: pass); then the de-duplication and the return
Strategy3User ==
    /\ fc_pc = "strategy3_user"
    /\ \E ok \in BOOLEAN :
         LET user_commits == IF ok THEN fc_user_commits \o ManualFilter(fc_all_commits, fc_info)
                                   ELSE fc_user_commits
         IN  /\ fc_user_commits' = user_commits
             /\ fc_result' = RemoveDuplicates(user_commits)
    /\ fc_pc' = "returned"
    /\ UNCHANGED <<fc_info, fc_emails, fc_all_commits, fc_requests>>
    /\ UNCHANGED othersCommits

NextCommits ==
    \/ Strategy1
    \/ Strategy2User
    \/ Strategy2Email
    \/ Strategy3All
    \/ Strategy3User

\* C3: the list fetch_commits returns holds no two commits with the same id,
\* and holds every distinct commit id the executed strategies collected
\* (the same commit returned by several strategies included).
C3_NoDuplicateCommits ==
    fc_pc = "returned" =>
        /\ \A i, j \in DOMAIN fc_result : fc_result[i] = fc_result[j] => i = j
        /\ Range(fc_result) = Range(fc_user_commits)

C3_Witness ==
    /\ fc_pc = "returned"
    /\ \E i, j \in DOMAIN fc_user_commits : i # j /\ fc_user_commits[i] = fc_user_commits[j]
    /\ Cardinality(Range(fc_user_commits)) >= 2
    /\ Len(fc_result) = Cardinality(Range(fc_user_commits))
    /\ Len(fc_result) < Len(fc_user_commits)

\* C12: once a strategy has returned at least one commit, no later strategy
\* issues a request for the project: whenever user_commits is non-empty,
\* fetch_commits has returned and has no request outstanding.
C12_LaterTiersSkipped ==
    fc_user_commits # <<>> => fc_pc = "returned"

ProjectIds == {41, 42, 43}

ProjectLists == SeqsUpTo(ProjectIds, MaxChannel)

FromChannel(ids, channel) == [i \in DOMAIN ids |-> [id |-> ids[i], channel |-> channel]]

\* the position of the entry with this id in a list of entries, 0 if none
IndexOfId(entries, id) ==
    IF \E i \in DOMAIN entries : entries[i].id = id
    THEN CHOOSE i \in DOMAIN entries : entries[i].id = id /\
                                       \A j \in DOMAIN entries : entries[j].id = id => i <= j
    ELSE 0

\* app.py: if project_id not in unique_projects: project["is_personal"] =
\* project in personal_projects; unique_projects[project_id] = project
RECURSIVE UniqueFirstWins(_, _, _)
UniqueFirstWins(all_projects, personal_projects, unique_projects) ==
    IF all_projects = <<>> THEN unique_projects
    ELSE LET project == Head(all_projects)
             is_personal == \E i \in DOMAIN personal_projects :
                               personal_projects[i].id = project.id
             entry == [id |-> project.id, channel |-> project.channel,
                       is_personal |-> is_personal]
         IN  UniqueFirstWins(Tail(all_projects), personal_projects,
                IF IndexOfId(unique_projects, project.id) = 0
                THEN Append(unique_projects, entry)
                ELSE unique_projects)

\* progress_view, detailed_view: all_projects[proj["id"]] = proj, the dict
\* keeping the place of the first insertion and the value of the last
RECURSIVE DictLastWins(_, _)
DictLastWins(all_projects, dict) ==
    IF all_projects = <<>> THEN dict
    ELSE LET proj == Head(all_projects)
             at == IndexOfId(dict, proj.id)
             entry == [id |-> proj.id, channel |-> proj.channel, is_personal |-> FALSE]
         IN  DictLastWins(Tail(all_projects),
                IF at = 0 THEN Append(dict, entry)
                ELSE [dict EXCEPT ![at] = entry])

ResolveIdle ==
    /\ pr_pc = "idle"
    /\ pr_owned = <<>>
    /\ pr_contributed = <<>>
    /\ pr_accessible = <<>>
    /\ pr_projects = <<>>

InitResolve ==
    /\ pr_pc = "discovered"
    /\ pr_owned \in ProjectLists
    /\ pr_contributed \in ProjectLists
    /\ pr_accessible \in ProjectLists
    /\ pr_projects = <<>>

\* app.py _gather_data: personal + contributed, first entry of an id kept
ResolveApp ==
    /\ pr_pc = "discovered"
    /\ LET personal_projects == FromChannel(pr_owned, "owned")
           contributed_projects == FromChannel(pr_contributed, "contributed")
       IN  pr_projects' = UniqueFirstWins(personal_projects \o contributed_projects,
                                          personal_projects, <<>>)
    /\ pr_pc' = "app"
    /\ UNCHANGED <<pr_owned, pr_contributed, pr_accessible>>
    /\ UNCHANGED othersResolve

\* progress_view gather_user_data: {p['id']: p for p in personal + contributed}
ResolveProgress ==
    /\ pr_pc = "discovered"
    /\ pr_projects' = DictLastWins(FromChannel(pr_owned, "owned")
                                   \o FromChannel(pr_contributed, "contributed"), <<>>)
    /\ pr_pc' = "progress"
    /\ UNCHANGED <<pr_owned, pr_contributed, pr_accessible>>
    /\ UNCHANGED othersResolve

\* detailed_view gather_data: owned + contributed + accessible into a dict
ResolveDetailed ==
    /\ pr_pc = "discovered"
    /\ pr_projects' = DictLastWins(FromChannel(pr_owned, "owned")
                                   \o FromChannel(pr_contributed, "contributed")
                                   \o FromChannel(pr_accessible, "accessible"), <<>>)
    /\ pr_pc' = "detailed"
    /\ UNCHANGED <<pr_owned, pr_contributed, pr_accessible>>
    /\ UNCHANGED othersResolve

NextResolve ==
    \/ ResolveApp
    \/ ResolveProgress
    \/ ResolveDetailed

\* the channels a page merges, and the ids they returned
ChannelIds(channel) ==
    CASE channel = "owned" -> Range(pr_owned)
      [] channel = "contributed" -> Range(pr_contributed)
      [] channel = "accessible" -> IF pr_pc = "detailed" THEN Range(pr_accessible) ELSE {}

DiscoveredIds == ChannelIds("owned") \cup ChannelIds("contributed") \cup ChannelIds("accessible")

\* OWNED over CONTRIBUTED over ACCESSIBLE
HighestOwnership(id) ==
    IF id \in ChannelIds("owned") THEN "owned"
    ELSE IF id \in ChannelIds("contributed") THEN "contributed"
    ELSE "accessible"

\* the ownership an entry of the resolved list carries: the is_personal flag
\* in app.py, elsewhere the channel whose object was kept
OwnershipOf(entry) ==
    IF pr_pc = "app"
    THEN (IF entry.is_personal THEN "owned" ELSE "contributed")
    ELSE entry.channel

\* every discovered project id is resolved exactly once
ResolvedOnce ==
    \A id \in DiscoveredIds :
        Cardinality({i \in DOMAIN pr_projects : pr_projects[i].id = id}) = 1

\* C6: a project id returned by more than one discovery channel appears
\* exactly once in the resolved project list, and the entry kept carries the
\* highest-precedence ownership (OWNED over CONTRIBUTED over ACCESSIBLE).
C6_DedupKeepsHighestOwnership ==
    pr_pc \in {"app", "progress", "detailed"} =>
        /\ ResolvedOnce
        /\ \A i \in DOMAIN pr_projects :
               OwnershipOf(pr_projects[i]) = HighestOwnership(pr_projects[i].id)

(***************************************************************************)
(* gather_user_data (progress_view): the per-project tasks of one          *)
(* identity, started together by asyncio.gather, and the record built      *)
(* when all of them have finished.                                         *)
(*                                                                         *)
(* A task runs without interruption from one await to the next; every      *)
(* action below is the resumption of one task at the fetch it awaits.      *)
(* fetch_commits swallows every exception of its requests; the other       *)
(* fetches raise when a request raises (a timeout, a connection error),    *)
(* which process_project catches: the task ends there.                     *)
(*                                                                         *)
(* gu_recv and gu_failed are history variables: what each task received    *)
(* from its fetches, and whether one of its fetches raised.                *)
(***************************************************************************)
Projects == 1..NProj

MrStates == {"opened", "closed", "merged", "locked"}
IssueStates == {"opened", "closed", "locked"}

NoneReceived == [commits |-> 0, merge_requests |-> 0, issues |-> 0,
                 mr_comments |-> 0, issue_comments |-> 0]

\* for mr in mrs: state = mr.get("state", "").lower();
\*                if state in total_mrs: total_mrs[state] += 1
RECURSIVE TallyStates(_, _)
TallyStates(totals, states) ==
    IF states = <<>> THEN totals
    ELSE TallyStates(
            IF Head(states) \in DOMAIN totals
            THEN [totals EXCEPT ![Head(states)] = @ + 1]
            ELSE totals,
            Tail(states))

\* ... then total_mrs["total"] += len(mrs)
Tally(totals, states) ==
    LET t == TallyStates(totals, states)
    IN  [t EXCEPT !["total"] = @ + Len(states)]

\* total += await fetch_comments(...): the left operand was read before the
\* await, the sum is stored after it
AddAwaited(read_before, current, count) == read_before + count

\* "total_contributions": total_commits + total_mrs["total"] + total_issues["total"]
TotalContributions(commits, mrs, issues, mr_comments, issue_comments) ==
    commits + mrs + issues

\* the dict gather_user_data returns
BuildRecord ==
    [commits |-> total_commits,
     merge_requests |-> total_mrs["total"],
     mrs_opened |-> total_mrs["opened"],
     mrs_closed |-> total_mrs["closed"],
     mrs_merged |-> total_mrs["merged"],
     issues |-> total_issues["total"],
     issues_opened |-> total_issues["opened"],
     issues_closed |-> total_issues["closed"],
     mr_comments |-> total_mr_comments,
     issue_comments |-> total_issue_comments,
     total_contributions |-> TotalContributions(total_commits, total_mrs["total"],
                                 total_issues["total"], total_mr_comments,
                                 total_issue_comments)]

NoRecord == [commits |-> 0, merge_requests |-> 0, mrs_opened |-> 0, mrs_closed |-> 0,
             mrs_merged |-> 0, issues |-> 0, issues_opened |-> 0, issues_closed |-> 0,
             mr_comments |-> 0, issue_comments |-> 0, total_contributions |-> 0]

GatherIdle ==
    /\ gu_pc = "idle"
    /\ gu_projects = {}
    /\ total_commits = 0
    /\ total_mrs = [opened |-> 0, closed |-> 0, merged |-> 0, total |-> 0]
    /\ total_issues = [opened |-> 0, closed |-> 0, total |-> 0]
    /\ total_mr_comments = 0
    /\ total_issue_comments = 0
    /\ t_pc = [p \in Projects |-> "none"]
    /\ t_mrs = [p \in Projects |-> 0]
    /\ t_issues = [p \in Projects |-> 0]
    /\ t_left = [p \in Projects |-> 0]
    /\ t_read = [p \in Projects |-> 0]
    /\ gu_record = NoRecord
    /\ gu_recv = [p \in Projects |-> NoneReceived]
    /\ gu_failed = [p \in Projects |-> FALSE]

\* the totals are zero and asyncio.gather has started one task per project
\* of projects_to_process; each runs up to its first await, in fetch_commits
InitGather ==
    /\ gu_pc = "gathering"
    /\ gu_projects \in SUBSET Projects
    /\ total_commits = 0
    /\ total_mrs = [opened |-> 0, closed |-> 0, merged |-> 0, total |-> 0]
    /\ total_issues = [opened |-> 0, closed |-> 0, total |-> 0]
    /\ total_mr_comments = 0
    /\ total_issue_comments = 0
    /\ t_pc = [p \in Projects |-> IF p \in gu_projects THEN "commits" ELSE "none"]
    /\ t_mrs = [p \in Projects |-> 0]
    /\ t_issues = [p \in Projects |-> 0]
    /\ t_left = [p \in Projects |-> 0]
    /\ t_read = [p \in Projects |-> 0]
    /\ gu_record = NoRecord
    /\ gu_recv = [p \in Projects |-> NoneReceived]
    /\ gu_failed = [p \in Projects |-> FALSE]

\* except Exception: pass
TaskRaises(p) ==
    /\ t_pc' = [t_pc EXCEPT ![p] = "done"]
    /\ gu_failed' = [gu_failed EXCEPT ![p] = TRUE]

\* the code of process_project from the start of the comment loops: the
\* first iteration reads the total and awaits fetch_comments
EnterCommentLoops(p, n_mrs, n_issues, mr_comments_now, issue_comments_now) ==
    IF n_mrs > 0
    THEN /\ t_pc' = [t_pc EXCEPT ![p] = "mr_comments"]
         /\ t_left' = [t_left EXCEPT ![p] = n_mrs]
         /\ t_read' = [t_read EXCEPT ![p] = mr_comments_now]
    ELSE IF n_issues > 0
    THEN /\ t_pc' = [t_pc EXCEPT ![p] = "issue_comments"]
         /\ t_left' = [t_left EXCEPT ![p] = n_issues]
         /\ t_read' = [t_read EXCEPT ![p] = issue_comments_now]
    ELSE /\ t_pc' = [t_pc EXCEPT ![p] = "done"]
         /\ t_left' = [t_left EXCEPT ![p] = 0]
         /\ t_read' = [t_read EXCEPT ![p] = 0]

\* commits = await fetch_commits(...); total_commits += len(commits)
TaskCommits(p) ==
    /\ gu_pc = "gathering"
    /\ t_pc[p] = "commits"
    /\ \E n \in 0..MaxPerProject :
         /\ total_commits' = total_commits + n
         /\ gu_recv' = [gu_recv EXCEPT ![p].commits = n]
    /\ t_pc' = [t_pc EXCEPT ![p] = "mrs"]
    /\ UNCHANGED <<gu_pc, gu_projects, total_mrs, total_issues, total_mr_comments,
                   total_issue_comments, t_mrs, t_issues, t_left, t_read, gu_record,
                   gu_failed>>
    /\ UNCHANGED othersGather

\* mrs = await fetch_merge_requests(...); the state tally
TaskMrs(p) ==
    /\ gu_pc = "gathering"
    /\ t_pc[p] = "mrs"
    /\ \/ /\ TaskRaises(p)
          /\ UNCHANGED <<total_mrs, t_mrs, gu_recv>>
       \/ \E mrs \in SeqsUpTo(MrStates, MaxPerProject) :
            /\ total_mrs' = Tally(total_mrs, mrs)
            /\ t_mrs' = [t_mrs EXCEPT ![p] = Len(mrs)]
            /\ gu_recv' = [gu_recv EXCEPT ![p].merge_requests = Len(mrs)]
            /\ t_pc' = [t_pc EXCEPT ![p] = "issues"]
            /\ UNCHANGED gu_failed
    /\ UNCHANGED <<gu_pc, gu_projects, total_commits, total_issues, total_mr_comments,
                   total_issue_comments, t_issues, t_left, t_read, gu_record>>
    /\ UNCHANGED othersGather

\* issues = await fetch_issues(...); the state tally; the comment loops begin
TaskIssues(p) ==
    /\ gu_pc = "gathering"
    /\ t_pc[p] = "issues"
    /\ \/ /\ TaskRaises(p)
          /\ UNCHANGED <<total_issues, t_issues, t_left, t_read, gu_recv>>
       \/ \E issues \in SeqsUpTo(IssueStates, MaxPerProject) :
            /\ total_issues' = Tally(total_issues, issues)
            /\ t_issues' = [t_issues EXCEPT ![p] = Len(issues)]
            /\ gu_recv' = [gu_recv EXCEPT ![p].issues = Len(issues)]
            /\ EnterCommentLoops(p, t_mrs[p], Len(issues), total_mr_comments,
                                 total_issue_comments)
            /\ UNCHANGED gu_failed
    /\ UNCHANGED <<gu_pc, gu_projects, total_commits, total_mrs, total_mr_comments,
                   total_issue_comments, t_mrs, gu_record>>
    /\ UNCHANGED othersGather

\* total_mr_comments += await fetch_comments(..., "merge_requests", ...)
TaskMrComments(p) ==
    /\ gu_pc = "gathering"
    /\ t_pc[p] = "mr_comments"
    /\ \/ /\ TaskRaises(p)
          /\ UNCHANGED <<total_mr_comments, t_left, t_read, gu_recv>>
       \/ \E count \in 0..MaxComments :
            LET stored == AddAwaited(t_read[p], total_mr_comments, count)
            IN  /\ total_mr_comments' = stored
                /\ gu_recv' = [gu_recv EXCEPT ![p].mr_comments = @ + count]
                /\ EnterCommentLoops(p, t_left[p] - 1, t_issues[p], stored,
                                     total_issue_comments)
                /\ UNCHANGED gu_failed
    /\ UNCHANGED <<gu_pc, gu_projects, total_commits, total_mrs, total_issues,
                   total_issue_comments, t_mrs, t_issues, gu_record>>
    /\ UNCHANGED othersGather

\* total_issue_comments += await fetch_comments(..., "issues", ...)
TaskIssueComments(p) ==
    /\ gu_pc = "gathering"
    /\ t_pc[p] = "issue_comments"
    /\ \/ /\ TaskRaises(p)
          /\ UNCHANGED <<total_issue_comments, t_left, t_read, gu_recv>>
       \/ \E count \in 0..MaxComments :
            LET stored == AddAwaited(t_read[p], total_issue_comments, count)
            IN  /\ total_issue_comments' = stored
                /\ gu_recv' = [gu_recv EXCEPT ![p].issue_comments = @ + count]
                /\ EnterCommentLoops(p, 0, t_left[p] - 1, 0, stored)
                /\ UNCHANGED gu_failed
    /\ UNCHANGED <<gu_pc, gu_projects, total_commits, total_mrs, total_issues,
                   total_mr_comments, t_mrs, t_issues, gu_record>>
    /\ UNCHANGED othersGather

\* await asyncio.gather(*tasks) returns; the record is built and returned
GatherReturn ==
    /\ gu_pc = "gathering"
    /\ \A p \in gu_projects : t_pc[p] = "done"
    /\ gu_record' = BuildRecord
    /\ gu_pc' = "returned"
    /\ UNCHANGED <<gu_projects, total_commits, total_mrs, total_issues, total_mr_comments,
                   total_issue_comments, t_pc, t_mrs, t_issues, t_left, t_read, gu_recv,
                   gu_failed>>
    /\ UNCHANGED othersGather

NextGather ==
    \/ \E p \in Projects : TaskCommits(p)
    \/ \E p \in Projects : TaskMrs(p)
    \/ \E p \in Projects : TaskIssues(p)
    \/ \E p \in Projects : TaskMrComments(p)
    \/ \E p \in Projects : TaskIssueComments(p)
    \/ GatherReturn

RECURSIVE SumOver(_, _)
SumOver(S, f) ==
    IF S = {} THEN 0
    ELSE LET x == CHOOSE y \in S : TRUE
         IN  f[x] + SumOver(S \ {x}, f)

\* what the tasks of a set of projects received, summed, for one category
Received(S, category) == SumOver(S, [p \in Projects |-> gu_recv[p][category]])

\* C1: every aggregate record has total_contributions = commits +
\* merge_requests + issues + mr_comments + issue_comments.
C1_TotalIsSumOfFive ==
    gu_pc = "returned" =>
        gu_record.total_contributions =
            gu_record.commits + gu_record.merge_requests + gu_record.issues
            + gu_record.mr_comments + gu_record.issue_comments

\* C2: for every interleaving of the per-project tasks of one identity, the
\* final commits, merge_requests, issues, mr_comments and issue_comments equal
\* the sum of the per-project and per-item values: no increment is lost.
C2_NoLostIncrement ==
    gu_pc = "returned" =>
        /\ gu_record.commits = Received(gu_projects, "commits")
        /\ gu_record.merge_requests = Received(gu_projects, "merge_requests")
        /\ gu_record.issues = Received(gu_projects, "issues")
        /\ gu_record.mr_comments = Received(gu_projects, "mr_comments")
        /\ gu_record.issue_comments = Received(gu_projects, "issue_comments")

\* the projects of the identity none of whose fetches raised
Unfailed == {p \in gu_projects : ~gu_failed[p]}

\* C8: if fetching one project fails, gathering the identity's data does not
\* raise (a record is returned once every task has ended), and the commits,
\* merge requests, issues and comments of every other project are fully
\* included in the returned record.
C8_OtherProjectsFullyIncluded ==
    /\ (gu_pc = "gathering" /\ \A p \in gu_projects : t_pc[p] = "done")
          => ENABLED GatherReturn
    /\ (gu_pc = "returned" /\ \E p \in gu_projects : gu_failed[p]) =>
        /\ gu_record.commits >= Received(Unfailed, "commits")
        /\ gu_record.merge_requests >= Received(Unfailed, "merge_requests")
        /\ gu_record.issues >= Received(Unfailed, "issues")
        /\ gu_record.mr_comments >= Received(Unfailed, "mr_comments")
        /\ gu_record.issue_comments >= Received(Unfailed, "issue_comments")

\* C22: a project whose fetch fails part-way (commits fetched, then the
\* merge-request, issue or comment fetch raises) contributes an empty set to
\* the identity's record: none of that project's commits, merge requests,
\* issues or comments are included in the final counts.
C22_FailedProjectContributesNothing ==
    (gu_pc = "returned" /\ \E p \in gu_projects : gu_failed[p]) =>
        /\ gu_record.commits <= Received(Unfailed, "commits")
        /\ gu_record.merge_requests <= Received(Unfailed, "merge_requests")
        /\ gu_record.issues <= Received(Unfailed, "issues")
        /\ gu_record.mr_comments <= Received(Unfailed, "mr_comments")
        /\ gu_record.issue_comments <= Received(Unfailed, "issue_comments")

(***************************************************************************)
(* fetch_all_users (progress_view): the batches of gather_user_data tasks, *)
(* the semaphore each task holds while it runs, and the connector of the   *)
(* session (TCPConnector(limit_per_host=10)), which every request of the   *)
(* batch goes through: all requests go to the host of BASE_URL.            *)
(*                                                                         *)
(* A request is first waiting (session.get called, no connection yet) and  *)
(* then in flight (it holds a connection until its response is read).      *)
(* The process_project tasks of a user are interchangeable here, so they   *)
(* are counted: how many wait, how many are in flight, how many ended.     *)
(***************************************************************************)
BATCH_SIZE == 10
SEMAPHORE_LIMIT == 10
LIMIT_PER_HOST == 10
\* fetch_json_with_pagination(..., max_pages=5)
MAX_PAGES == 5

Users == 1..MaxUsers

\* the users whose gather_user_data is inside `async with semaphore`
Holders == {u \in Users : u_pc[u] \in {"lookup", "personal", "contributed", "projects"}}

\* the requests in flight: those of the users themselves and of their tasks
UserInFlight == Cardinality({u \in Users : u_req[u] = "flight"})

RECURSIVE TasksInFlight(_)
TasksInFlight(u) == IF u = 0 THEN 0 ELSE tk_flight[u] + TasksInFlight(u - 1)

InFlight == UserInFlight + TasksInFlight(MaxUsers)

ConnectorUnlimited == TRUE

\* TCPConnector(limit_per_host=10): a connection to the host is handed out
\* only while fewer than limit_per_host of them are acquired
ConnectionAvailable == InFlight < LIMIT_PER_HOST

BatchIdle ==
    /\ b_pc = "idle"
    /\ b_n = 0
    /\ b_i = 0
    /\ all_data = <<>>
    /\ bulk_data = {}
    /\ u_pc = [u \in Users |-> "none"]
    /\ u_req = [u \in Users |-> "none"]
    /\ u_page = [u \in Users |-> 0]
    /\ u_result = [u \in Users |-> "none"]
    /\ tk_n = [u \in Users |-> 0]
    /\ tk_wait = [u \in Users |-> 0]
    /\ tk_flight = [u \in Users |-> 0]
    /\ tk_done = [u \in Users |-> 0]

\* fetch_all_users (progress_view) is entered with len(usernames) = b_n and
\* all_data = []; or process_users (bulk_summary) is entered with the
\* usernames and the st.session_state.bulk_data of the earlier runs
InitBatch ==
    /\ b_n \in 0..MaxUsers
    /\ b_i = 0
    /\ all_data = <<>>
    /\ \/ b_pc = "loop" /\ bulk_data = {}
       \/ b_pc = "bulk" /\ bulk_data \in SUBSET Users
    /\ u_pc = [u \in Users |-> "none"]
    /\ u_req = [u \in Users |-> "none"]
    /\ u_page = [u \in Users |-> 0]
    /\ u_result = [u \in Users |-> "none"]
    /\ tk_n = [u \in Users |-> 0]
    /\ tk_wait = [u \in Users |-> 0]
    /\ tk_flight = [u \in Users |-> 0]
    /\ tk_done = [u \in Users |-> 0]

\* usernames[i:i+BATCH_SIZE], as positions of the list
BatchOf(i) == {u \in Users : i < u /\ u <= i + BATCH_SIZE /\ u <= b_n}

\* for i in range(0, len(usernames), BATCH_SIZE): the tasks of the batch are
\* created and gathered; with no batch left, all_data is returned
BatchLoop ==
    /\ b_pc = "loop"
    /\ IF b_i < b_n
       THEN /\ b_pc' = "gather"
            /\ u_pc' = [u \in Users |-> IF u \in BatchOf(b_i) THEN "semaphore" ELSE u_pc[u]]
       ELSE /\ b_pc' = "returned"
            /\ u_pc' = u_pc
    /\ UNCHANGED <<b_n, b_i, all_data, bulk_data, u_req, u_page, u_result, tk_n, tk_wait,
                   tk_flight, tk_done>>
    /\ UNCHANGED othersBatch

\* async with semaphore: the permit is taken and the user lookup is issued
AcquireSemaphore(u) ==
    /\ b_pc = "gather"
    /\ u_pc[u] = "semaphore"
    /\ Cardinality(Holders) < SEMAPHORE_LIMIT
    /\ u_pc' = [u_pc EXCEPT ![u] = "lookup"]
    /\ u_req' = [u_req EXCEPT ![u] = "wait"]
    /\ UNCHANGED <<b_pc, b_n, b_i, all_data, bulk_data, u_page, u_result, tk_n, tk_wait,
                   tk_flight, tk_done>>
    /\ UNCHANGED othersBatch

\* the connector gives the waiting request of the user a connection
UserConnect(u) ==
    /\ u_req[u] = "wait"
    /\ ConnectionAvailable
    /\ u_req' = [u_req EXCEPT ![u] = "flight"]
    /\ UNCHANGED <<b_pc, b_n, b_i, all_data, bulk_data, u_pc, u_page, u_result, tk_n,
                   tk_wait, tk_flight, tk_done>>
    /\ UNCHANGED othersBatch

\* gather_user_data ends with this result: the semaphore is released
UserEnds(u, result) ==
    /\ u_pc' = [u_pc EXCEPT ![u] = "done"]
    /\ u_req' = [u_req EXCEPT ![u] = "none"]
    /\ u_result' = [u_result EXCEPT ![u] = result]
    /\ UNCHANGED <<b_pc, u_page, tk_n, tk_wait, tk_flight>>

\* without the except clause the exception leaves the task, and
\* asyncio.gather raises it into fetch_all_users
UserRaisesUncaught(u) ==
    /\ b_pc' = "raised"
    /\ u_pc' = [u_pc EXCEPT ![u] = "done"]
    /\ u_req' = [u_req EXCEPT ![u] = "none"]
    /\ u_result' = [u_result EXCEPT ![u] = "raised"]
    /\ UNCHANGED <<u_page, tk_n, tk_wait, tk_flight>>

\* a request of the user raises (a timeout, a connection error, a body that
\* is not JSON): except Exception: return None
UserRaises(u) == UserEnds(u, "None")

\* one more page is requested
NextPage(u) ==
    /\ u_page[u] < MAX_PAGES
    /\ u_page' = [u_page EXCEPT ![u] = @ + 1]
    /\ u_req' = [u_req EXCEPT ![u] = "wait"]
    /\ UNCHANGED <<b_pc, u_pc, u_result, tk_n, tk_wait, tk_flight>>

\* the lookup answers: a user (the personal projects are requested), or no
\* user (an empty list, or a status that is not 200: return None), or the
\* request raises
UserLookup(u) ==
    /\ b_pc = "gather"
    /\ u_pc[u] = "lookup" /\ u_req[u] = "flight"
    /\ \/ /\ u_pc' = [u_pc EXCEPT ![u] = "personal"]
          /\ u_req' = [u_req EXCEPT ![u] = "wait"]
          /\ u_page' = [u_page EXCEPT ![u] = 1]
          /\ UNCHANGED <<b_pc, u_result, tk_n, tk_wait, tk_flight>>
       \/ UserEnds(u, "None")
       \/ UserRaises(u)
    /\ UNCHANGED <<b_n, b_i, all_data, bulk_data, tk_done>>
    /\ UNCHANGED othersBatch

\* a page of the personal projects answers: another page is requested, or
\* the list is complete and the contributed projects are requested
UserPersonal(u) ==
    /\ b_pc = "gather"
    /\ u_pc[u] = "personal" /\ u_req[u] = "flight"
    /\ \/ NextPage(u)
       \/ /\ u_pc' = [u_pc EXCEPT ![u] = "contributed"]
          /\ u_req' = [u_req EXCEPT ![u] = "wait"]
          /\ u_page' = [u_page EXCEPT ![u] = 1]
          /\ UNCHANGED <<b_pc, u_result, tk_n, tk_wait, tk_flight>>
       \/ UserRaises(u)
    /\ UNCHANGED <<b_n, b_i, all_data, bulk_data, tk_done>>
    /\ UNCHANGED othersBatch

\* the numbers of projects_to_process the model draws from
TaskCounts == {0, 1, MaxTasks}

\* a page of the contributed projects answers: another page, or the list is
\* complete: one process_project task per project is created and each
\* issues its first request (with no project, gather returns at once)
UserContributed(u) ==
    /\ b_pc = "gather"
    /\ u_pc[u] = "contributed" /\ u_req[u] = "flight"
    /\ \/ NextPage(u)
       \/ \E n \in TaskCounts :
            /\ u_pc' = [u_pc EXCEPT ![u] = "projects"]
            /\ u_req' = [u_req EXCEPT ![u] = "none"]
            /\ u_page' = [u_page EXCEPT ![u] = 0]
            /\ tk_n' = [tk_n EXCEPT ![u] = n]
            /\ tk_wait' = [tk_wait EXCEPT ![u] = n]
            /\ UNCHANGED <<b_pc, u_result, tk_flight>>
       \/ UserRaises(u)
    /\ UNCHANGED <<b_n, b_i, all_data, bulk_data, tk_done>>
    /\ UNCHANGED othersBatch

\* the connector gives the waiting request of one of the user's tasks a
\* connection
TaskConnect(u) ==
    /\ tk_wait[u] > 0
    /\ ConnectionAvailable
    /\ tk_wait' = [tk_wait EXCEPT ![u] = @ - 1]
    /\ tk_flight' = [tk_flight EXCEPT ![u] = @ + 1]
    /\ UNCHANGED <<b_pc, b_n, b_i, all_data, bulk_data, u_pc, u_req, u_page, u_result,
                   tk_n, tk_done>>
    /\ UNCHANGED othersBatch

\* a request of a task answers or raises: the task issues its next request,
\* or it has ended (after its last fetch, or in except Exception: pass)
TaskResponse(u) ==
    /\ tk_flight[u] > 0
    /\ tk_flight' = [tk_flight EXCEPT ![u] = @ - 1]
    /\ \/ /\ tk_wait' = [tk_wait EXCEPT ![u] = @ + 1]
          /\ UNCHANGED tk_done
       \/ /\ tk_done' = [tk_done EXCEPT ![u] = @ + 1]
          /\ UNCHANGED tk_wait
    /\ UNCHANGED <<b_pc, b_n, b_i, all_data, bulk_data, u_pc, u_req, u_page, u_result,
                   tk_n>>
    /\ UNCHANGED othersBatch

\* await asyncio.gather(*tasks) of the user returns: the record is returned
UserRecord(u) ==
    /\ b_pc = "gather"
    /\ u_pc[u] = "projects"
    /\ tk_done[u] = tk_n[u]
    /\ UserEnds(u, "record")
    /\ UNCHANGED <<b_n, b_i, all_data, bulk_data, tk_done>>
    /\ UNCHANGED othersBatch

\* [r for r in results if r], in the order of the batch
RECURSIVE Records(_, _)
Records(from, to) ==
    IF from > to THEN <<>>
    ELSE (IF u_result[from] = "record" THEN <<from>> ELSE <<>>) \o Records(from + 1, to)

\* results = await asyncio.gather(*tasks); all_data.extend(...); the sleep
BatchGathered ==
    /\ b_pc = "gather"
    /\ \A u \in BatchOf(b_i) : u_pc[u] = "done"
    /\ all_data' = all_data \o Records(b_i + 1, IF b_i + BATCH_SIZE < b_n
                                                THEN b_i + BATCH_SIZE ELSE b_n)
    /\ b_i' = b_i + BATCH_SIZE
    /\ b_pc' = "loop"
    /\ UNCHANGED <<b_n, bulk_data, u_pc, u_req, u_page, u_result, tk_n, tk_wait, tk_flight,
                   tk_done>>
    /\ UNCHANGED othersBatch

\* process_users (bulk_summary), one turn of for username in usernames: a
\* username of bulk_data is skipped; else gather_user_data_cached returns
\* and the tuple is stored, or it raises ("User not found", a request that
\* raises) and except Exception: ... continue goes to the next username
ProcessUser ==
    /\ b_pc = "bulk"
    /\ b_i < b_n
    /\ LET u == b_i + 1
       IN  IF u \in bulk_data
           THEN /\ u_result' = [u_result EXCEPT ![u] = "cached"]
                /\ UNCHANGED bulk_data
           ELSE \/ /\ bulk_data' = bulk_data \union {u}
                   /\ u_result' = [u_result EXCEPT ![u] = "record"]
                \/ /\ u_result' = [u_result EXCEPT ![u] = "raised"]
                   /\ UNCHANGED bulk_data
    /\ b_i' = b_i + 1
    /\ UNCHANGED <<b_pc, b_n, all_data, u_pc, u_req, u_page, tk_n, tk_wait, tk_flight,
                   tk_done>>
    /\ UNCHANGED othersBatch

\* the loop of process_users has gone through the usernames
ProcessUsersReturn ==
    /\ b_pc = "bulk"
    /\ b_i = b_n
    /\ b_pc' = "returned"
    /\ UNCHANGED <<b_n, b_i, all_data, bulk_data, u_pc, u_req, u_page, u_result, tk_n,
                   tk_wait, tk_flight, tk_done>>
    /\ UNCHANGED othersBatch

NextBatch ==
    \/ BatchLoop
    \/ \E u \in Users : AcquireSemaphore(u)
    \/ \E u \in Users : UserConnect(u)
    \/ \E u \in Users : UserLookup(u)
    \/ \E u \in Users : UserPersonal(u)
    \/ \E u \in Users : UserContributed(u)
    \/ \E u \in Users : TaskConnect(u)
    \/ \E u \in Users : TaskResponse(u)
    \/ \E u \in Users : UserRecord(u)
    \/ BatchGathered
    \/ ProcessUser
    \/ ProcessUsersReturn

\* C7: at every moment of a batch query at most 10 requests are in flight,
\* counted over all identities and all projects of the batch together.
C7_InFlightAtMostLimit == InFlight <= 10

\* the limit is reached by the requests of two identities together, while
\* further requests of the batch wait for a connection
C7_Witness ==
    /\ InFlight = 10
    /\ \A u \in Users : tk_flight[u] > 0 /\ tk_flight[u] < 10
    /\ \E u \in Users : tk_wait[u] > 0

\* the usernames of the batch result
BatchResult == Range(all_data) \union bulk_data

\* C9: the failure to gather one identity does not abort the batch: the batch
\* never raises, and when it returns every username of the input has been
\* processed and every identity that was gathered is in the batch result.
C9_FailureDoesNotAbortBatch ==
    /\ b_pc # "raised"
    /\ b_pc = "returned" =>
         \A u \in 1..b_n :
            /\ u_result[u] # "none"
            /\ u_result[u] \in {"record", "cached"} => u \in BatchResult

\* the first identity failed to be gathered, the second one is in the result
C9_Witness ==
    /\ b_pc = "returned"
    /\ b_n = 2
    /\ u_result[1] \in {"None", "raised"}
    /\ u_result[2] = "record"
    /\ 2 \in BatchResult

(***************************************************************************)
(* gather_data (detailed_view): one query, request by request.             *)
(*                                                                         *)
(* Every request goes through fetch_json, which raises on 401, returns     *)
(* None on 404, raises on any other error status (raise_for_status) and    *)
(* returns the JSON body otherwise.  What becomes of the exception is up   *)
(* to the function that made the request.                                  *)
(***************************************************************************)
\* what a request is answered: a non-empty list, an empty list, 401, 404,
\* another error status or a failed connection
Responses == {"data", "empty", "e401", "e404", "err"}

\* fetch_json raises on this answer
FetchJsonRaises(r) == r \in {"e401", "err"}

\* the exception fetch_json raises
FetchJsonError(r) == IF r = "e401" THEN "Unauthorized" ELSE "HTTPError"

DvProjectIds == 1..MaxDvProjects

\* the keys of the cache: one per project for the commits, one per category
CommitsKey(p) == <<"commits", p>>
MrsKey == <<"mrs", 0>>
IssuesKey == <<"issues", 0>>
MrCommentsKey == <<"mr_comments", 0>>
IssueCommentsKey == <<"issue_comments", 0>>
CacheKeys ==
    {CommitsKey(p) : p \in DvProjectIds}
        \union {MrsKey, IssuesKey, MrCommentsKey, IssueCommentsKey}

\* the three discovery requests
DiscoveryPlaces == {"owned", "contributed", "accessible"}

\* what a discovery function returns: None, or a list of projects
NoneValue == [none |-> TRUE, ids |-> {}]
ListValue(ids) == [none |-> FALSE, ids |-> ids]

DetailedIdle ==
    /\ dv_pc = "idle"
    /\ dv_email = FALSE
    /\ dv_owned = ListValue({})
    /\ dv_contributed = ListValue({})
    /\ dv_accessible = ListValue({})
    /\ dv_projects = {}
    /\ dv_todo = {}
    /\ dv_strategy = 0
    /\ dv_verified = FALSE
    /\ dv_sub = "none"
    /\ dv_cache = {}
    /\ dv_error = "none"
    /\ dv_seen401 = {}
    /\ dv_answer = [c \in DiscoveryPlaces |-> "none"]

\* gather_data(username) is called; the cache holds valid entries of
\* earlier queries or none
InitDetailed ==
    /\ dv_pc = "user"
    /\ dv_email \in BOOLEAN
    /\ dv_owned = ListValue({})
    /\ dv_contributed = ListValue({})
    /\ dv_accessible = ListValue({})
    /\ dv_projects = {}
    /\ dv_todo = {}
    /\ dv_strategy = 0
    /\ dv_verified = FALSE
    /\ dv_sub = "none"
    /\ dv_cache \in SUBSET CacheKeys
    /\ dv_error = "none"
    /\ dv_seen401 = {}
    /\ dv_answer = [c \in DiscoveryPlaces |-> "none"]

\* history: the request at this place was answered r
Saw(place, r) ==
    /\ dv_seen401' = IF r = "e401" THEN dv_seen401 \union {place} ELSE dv_seen401
    /\ dv_answer' = IF place \in DiscoveryPlaces THEN [dv_answer EXCEPT ![place] = r]
                    ELSE dv_answer

\* the exception leaves gather_data; the page shows it with st.error
Raise(error) ==
    /\ dv_pc' = "raised"
    /\ dv_error' = error
    /\ UNCHANGED <<dv_email, dv_owned, dv_contributed, dv_accessible, dv_projects, dv_todo,
                   dv_strategy, dv_verified, dv_sub, dv_cache>>

\* fetch_user: users[0] if users else None; if not user: raise ValueError
FetchUser ==
    /\ dv_pc = "user"
    /\ \E r \in Responses :
         /\ Saw("user", r)
         /\ IF FetchJsonRaises(r) THEN Raise(FetchJsonError(r))
            ELSE IF r = "data"
            THEN /\ dv_pc' = "owned"
                 /\ UNCHANGED <<dv_email, dv_owned, dv_contributed, dv_accessible,
                                dv_projects, dv_todo, dv_strategy, dv_verified, dv_sub,
                                dv_cache, dv_error>>
            ELSE Raise("ValueError")
    /\ UNCHANGED othersDetailed

\* fetch_projects, fetch_contributed_projects, fetch_all_accessible_projects:
\* try: return await fetch_json(...) / except: return []
DiscoveryValues(r) ==
    IF FetchJsonRaises(r) \/ r = "empty" THEN {ListValue({})}
    ELSE IF r = "e404" THEN {NoneValue}
    ELSE {ListValue(ids) : ids \in (SUBSET DvProjectIds) \ {{}}}

FetchOwned ==
    /\ dv_pc = "owned"
    /\ \E r \in Responses :
         /\ Saw("owned", r)
         /\ dv_owned' \in DiscoveryValues(r)
    /\ dv_pc' = "contributed"
    /\ UNCHANGED <<dv_email, dv_contributed, dv_accessible, dv_projects, dv_todo,
                   dv_strategy, dv_verified, dv_sub, dv_cache, dv_error>>
    /\ UNCHANGED othersDetailed

FetchContributed ==
    /\ dv_pc = "contributed"
    /\ \E r \in Responses :
         /\ Saw("contributed", r)
         /\ dv_contributed' \in DiscoveryValues(r)
    /\ dv_pc' = "accessible"
    /\ UNCHANGED <<dv_email, dv_owned, dv_accessible, dv_projects, dv_todo, dv_strategy,
                   dv_verified, dv_sub, dv_cache, dv_error>>
    /\ UNCHANGED othersDetailed

\* The stage gather_data is in once it reaches a fetch function with this
\* cache and these projects: a function whose key is in the cache returns
\* without a request, a comment function with no project saves its empty
\* list and returns
EnterIssueComments(cache, projects) ==
    IF IssueCommentsKey \in cache THEN [pc |-> "returned", cache |-> cache]
    ELSE IF projects = {}
    THEN [pc |-> "returned", cache |-> cache \union {IssueCommentsKey}]
    ELSE [pc |-> "issue_comments", cache |-> cache]

EnterMrComments(cache, projects) ==
    IF MrCommentsKey \in cache THEN EnterIssueComments(cache, projects)
    ELSE IF projects = {}
    THEN EnterIssueComments(cache \union {MrCommentsKey}, projects)
    ELSE [pc |-> "mr_comments", cache |-> cache]

EnterIssues(cache, projects) ==
    IF IssuesKey \in cache THEN EnterMrComments(cache, projects)
    ELSE [pc |-> "issues", cache |-> cache]

EnterMrs(cache, projects) ==
    IF MrsKey \in cache THEN EnterIssues(cache, projects)
    ELSE [pc |-> "mrs", cache |-> cache]

\* the projects whose commits are not in the cache
Uncached(cache, projects) == {p \in projects : CommitsKey(p) \notin cache}

EnterCommits(cache, projects) ==
    IF Uncached(cache, projects) = {} THEN EnterMrs(cache, projects)
    ELSE [pc |-> "commits", cache |-> cache]

\* gather_data goes on at the stage e
Goto(e, projects) ==
    /\ dv_pc' = e.pc
    /\ dv_cache' = e.cache
    /\ dv_todo' = IF e.pc = "commits" THEN Uncached(e.cache, projects)
                  ELSE IF e.pc \in {"mr_comments", "issue_comments"} THEN projects
                  ELSE {}
    /\ dv_strategy' = IF e.pc = "commits" THEN 1 ELSE 0
    /\ dv_verified' = FALSE
    /\ dv_sub' = IF e.pc \in {"mr_comments", "issue_comments"} THEN "list" ELSE "none"

\* the third channel answers; then
\* for proj in owned_projects + contributed_projects + all_accessible_projects
\* which raises TypeError when one of them is None
FetchAccessible ==
    /\ dv_pc = "accessible"
    /\ \E r \in Responses :
         /\ Saw("accessible", r)
         /\ \E v \in DiscoveryValues(r) :
              /\ dv_accessible' = v
              /\ IF dv_owned.none \/ dv_contributed.none \/ v.none
                 THEN /\ dv_pc' = "raised"
                      /\ dv_error' = "TypeError"
                      /\ UNCHANGED <<dv_projects, dv_todo, dv_strategy, dv_verified,
                                     dv_sub, dv_cache>>
                 ELSE LET projects == dv_owned.ids \union dv_contributed.ids \union v.ids
                      IN  /\ dv_projects' = projects
                          /\ Goto(EnterCommits(dv_cache, projects), projects)
                          /\ UNCHANGED dv_error
    /\ UNCHANGED <<dv_email, dv_owned, dv_contributed>>
    /\ UNCHANGED othersDetailed

\* the project the running loop is at
Current == CHOOSE p \in dv_todo : \A q \in dv_todo : p <= q

\* the strategy fetch_commits_by_author runs after strategy s, 0 for none
NextStrategy(s, verified, email) ==
    IF verified \/ s = 4 THEN 0
    ELSE IF s = 1 THEN 2
    ELSE IF s = 2 THEN (IF email THEN 3 ELSE 4)
    ELSE 4

\* fetch_commits_by_author, one strategy: try: commits = await fetch_json(...)
\* ... except Exception: pass; after the last strategy the commits are
\* deduplicated and saved to the cache
FetchCommits ==
    /\ dv_pc = "commits"
    /\ \E r \in Responses :
         /\ Saw("commits", r)
         /\ LET verified == dv_verified \/ r = "data"
                next == NextStrategy(dv_strategy, verified, dv_email)
            IN  IF next # 0
                THEN /\ dv_strategy' = next
                     /\ dv_verified' = verified
                     /\ UNCHANGED <<dv_pc, dv_todo, dv_sub, dv_cache>>
                ELSE LET cache == dv_cache \union {CommitsKey(Current)}
                     IN  Goto(EnterCommits(cache, dv_projects), dv_projects)
    /\ UNCHANGED <<dv_email, dv_owned, dv_contributed, dv_accessible, dv_projects, dv_error>>
    /\ UNCHANGED othersDetailed

\* fetch_merge_requests_by_author: the list is filtered and saved to the
\* cache; except Exception: return []
FetchMergeRequests ==
    /\ dv_pc = "mrs"
    /\ \E r \in Responses :
         /\ Saw("mrs", r)
         /\ LET cache == IF FetchJsonRaises(r) THEN dv_cache
                         ELSE dv_cache \union {MrsKey}
            IN  Goto(EnterIssues(cache, dv_projects), dv_projects)
    /\ UNCHANGED <<dv_email, dv_owned, dv_contributed, dv_accessible, dv_projects, dv_error>>
    /\ UNCHANGED othersDetailed

\* fetch_issues_by_author: as for the merge requests
FetchIssues ==
    /\ dv_pc = "issues"
    /\ \E r \in Responses :
         /\ Saw("issues", r)
         /\ LET cache == IF FetchJsonRaises(r) THEN dv_cache
                         ELSE dv_cache \union {IssuesKey}
            IN  Goto(EnterMrComments(cache, dv_projects), dv_projects)
    /\ UNCHANGED <<dv_email, dv_owned, dv_contributed, dv_accessible, dv_projects, dv_error>>
    /\ UNCHANGED othersDetailed

\* one request of a comment function: the items of the project (then the
\* notes of an item are requested), or the notes of an item; an exception
\* goes to the next item or project (except Exception: continue); after the
\* last project the comments are saved to the cache
CommentRequest(place, key, r) ==
    /\ Saw(place, r)
    /\ IF dv_sub = "list" /\ r = "data"
       THEN /\ dv_sub' = "notes"
            /\ UNCHANGED <<dv_pc, dv_todo, dv_strategy, dv_verified, dv_cache>>
       ELSE IF dv_todo # {Current}
       THEN /\ dv_todo' = dv_todo \ {Current}
            /\ dv_sub' = "list"
            /\ UNCHANGED <<dv_pc, dv_strategy, dv_verified, dv_cache>>
       ELSE IF place = "mr_comments"
       THEN Goto(EnterIssueComments(dv_cache \union {key}, dv_projects), dv_projects)
       ELSE Goto([pc |-> "returned", cache |-> dv_cache \union {key}], dv_projects)

FetchMrComments ==
    /\ dv_pc = "mr_comments"
    /\ \E r \in Responses : CommentRequest("mr_comments", MrCommentsKey, r)
    /\ UNCHANGED <<dv_email, dv_owned, dv_contributed, dv_accessible, dv_projects, dv_error>>
    /\ UNCHANGED othersDetailed

FetchIssueComments ==
    /\ dv_pc = "issue_comments"
    /\ \E r \in Responses : CommentRequest("issue_comments", IssueCommentsKey, r)
    /\ UNCHANGED <<dv_email, dv_owned, dv_contributed, dv_accessible, dv_projects, dv_error>>
    /\ UNCHANGED othersDetailed

NextDetailed ==
    \/ FetchUser
    \/ FetchOwned
    \/ FetchContributed
    \/ FetchAccessible
    \/ FetchCommits
    \/ FetchMergeRequests
    \/ FetchIssues
    \/ FetchMrComments
    \/ FetchIssueComments

\* C10: a 401 answer to any request of a query aborts the query with an
\* authorization failure that reaches the caller: from the moment a request
\* was answered 401 the query is aborted with that error, and it never
\* completes.
C10_UnauthorizedAbortsQuery ==
    dv_seen401 # {} => (dv_pc = "raised" /\ dv_error = "Unauthorized")

\* the discovery request at this place failed: an exception or a 404
DiscoveryFailed(place) == dv_answer[place] \in {"e401", "e404", "err"}

\* C11: when the owned-projects call succeeds and the contributed or the
\* accessible discovery call fails (an exception or a 404), the query is not
\* aborted and the projects are those of the channels that succeeded.
C11_DiscoveryFailureDegrades ==
    (/\ dv_answer["owned"] \in {"data", "empty"}
     /\ dv_answer["accessible"] # "none"
     /\ DiscoveryFailed("contributed") \/ DiscoveryFailed("accessible"))
    => /\ dv_pc # "raised"
       /\ dv_projects = UNION {IF DiscoveryFailed(c) THEN {}
                                ELSE (CASE c = "owned" -> dv_owned.ids
                                        [] c = "contributed" -> dv_contributed.ids
                                        [] OTHER -> dv_accessible.ids) : c \in DiscoveryPlaces}

(***************************************************************************)
(* The merge request and issue fetches.  Every page asks the server with   *)
(* the author_id filter; what the server answers is any list of items,     *)
(* whose "author" is absent, null, or an object with or without an id      *)
(* (id 0 stands for no id).                                                *)
(***************************************************************************)
AuthorValues ==
    {[kind |-> "missing", id |-> 0], [kind |-> "null", id |-> 0]}
        \union {[kind |-> "obj", id |-> i] : i \in {0} \union UserIds}

AuthoredItems == [author : AuthorValues]

\* mr.get("author", {}).get("id") raises AttributeError when author is null
AuthorIdRaises(item) == item.author.kind = "null"

\* mr.get("author", {}).get("id"): None (0) without author or without id
AuthorId(item) == IF item.author.kind = "obj" THEN item.author.id ELSE 0

\* the loop of detailed_view: if mr.get("author", {}).get("id") == user_id
RECURSIVE FilterByAuthor(_, _)
FilterByAuthor(items, user_id) ==
    IF items = <<>> THEN <<>>
    ELSE (IF AuthorId(Head(items)) = user_id THEN <<Head(items)>> ELSE <<>>)
         \o FilterByAuthor(Tail(items), user_id)

AuthoredIdle ==
    /\ au_pc = "idle"
    /\ au_user_id = 0
    /\ au_items = <<>>
    /\ au_result = <<>>

\* a fetch is about to run for the identity; au_items is what the server
\* answers if it answers 200
InitAuthored ==
    /\ au_pc = "request"
    /\ au_user_id \in UserIds
    /\ au_items \in SeqsUpTo(AuthoredItems, MaxAuthored)
    /\ au_result = <<>>

\* detailed_view: the answer is filtered by author.id; a 404 (None) gives
\* the empty list; an exception (of fetch_json or of the loop) gives []
AuthoredDetailed(r) ==
    IF r = "data" /\ \A i \in DOMAIN au_items : ~AuthorIdRaises(au_items[i])
    THEN FilterByAuthor(au_items, au_user_id)
    ELSE <<>>

fetch_merge_requests_by_author ==
    /\ au_pc = "request"
    /\ \E r \in {"data", "e404", "raises"} :
         au_result' = AuthoredDetailed(r)
    /\ au_pc' = "detailed_mrs"
    /\ UNCHANGED <<au_user_id, au_items>>
    /\ UNCHANGED othersAuthored

fetch_issues_by_author ==
    /\ au_pc = "request"
    /\ \E r \in {"data", "e404", "raises"} :
         au_result' = AuthoredDetailed(r)
    /\ au_pc' = "detailed_issues"
    /\ UNCHANGED <<au_user_id, au_items>>
    /\ UNCHANGED othersAuthored

\* app.py, bulk_summary: return await fetch_json(...); except: return []
AuthoredApp(ok) == IF ok THEN au_items ELSE <<>>

fetch_merge_requests_app ==
    /\ au_pc = "request"
    /\ \E ok \in BOOLEAN : au_result' = AuthoredApp(ok)
    /\ au_pc' = "app_mrs"
    /\ UNCHANGED <<au_user_id, au_items>>
    /\ UNCHANGED othersAuthored

fetch_issues_app ==
    /\ au_pc = "request"
    /\ \E ok \in BOOLEAN : au_result' = AuthoredApp(ok)
    /\ au_pc' = "app_issues"
    /\ UNCHANGED <<au_user_id, au_items>>
    /\ UNCHANGED othersAuthored

\* progress_view: return await fetch_json_with_pagination(...), which gives
\* the pages read before a status other than 200 (here: one page or none)
AuthoredProgress(ok) == IF ok THEN au_items ELSE <<>>

fetch_merge_requests_progress ==
    /\ au_pc = "request"
    /\ \E ok \in BOOLEAN : au_result' = AuthoredProgress(ok)
    /\ au_pc' = "progress_mrs"
    /\ UNCHANGED <<au_user_id, au_items>>
    /\ UNCHANGED othersAuthored

fetch_issues_progress ==
    /\ au_pc = "request"
    /\ \E ok \in BOOLEAN : au_result' = AuthoredProgress(ok)
    /\ au_pc' = "progress_issues"
    /\ UNCHANGED <<au_user_id, au_items>>
    /\ UNCHANGED othersAuthored

NextAuthored ==
    \/ fetch_merge_requests_by_author
    \/ fetch_issues_by_author
    \/ fetch_merge_requests_app
    \/ fetch_issues_app
    \/ fetch_merge_requests_progress
    \/ fetch_issues_progress

\* C13: every merge request and every issue in the collected result of an
\* identity has author.id equal to the identity's id; an item the server
\* returned with another author.id is dropped.
C13_AuthorIdCrossChecked ==
    au_pc # "idle" =>
        \A i \in DOMAIN au_result :
            /\ au_result[i].author.kind = "obj"
            /\ au_result[i].author.id = au_user_id

(***************************************************************************)
(* Grading (progress_view).  calculate_grade works on floats:              *)
(* df[...].mean() is the float sum / count, and value / avg_value * 100 is *)
(* a float division followed by a float multiplication, each rounded to    *)
(* the nearest double (ties to even).  The doubles are modelled exactly.   *)
(* A positive double is a 53-bit mantissa m with an exponent e, of value   *)
(* m * 2^e; a mantissa is held in three limbs of 18 bits, least            *)
(* significant first (the last limb takes what exceeds 54 bits).           *)
(***************************************************************************)
\* bits of the mantissa of a double
MantissaBits == 53
\* the base of a limb, 2^18
LimbBase == 262144
\* the last limb of 2^52, the least 53-bit mantissa, and of 2^53
MantissaMin == 65536
MantissaMax == 131072

\* a natural number below 2^18 as limbs
Wide(n) == <<n, 0, 0>>

WideZero == Wide(0)

\* a >= b
WideGeq(a, b) ==
    \/ a[3] > b[3]
    \/ a[3] = b[3] /\ a[2] > b[2]
    \/ a[3] = b[3] /\ a[2] = b[2] /\ a[1] >= b[1]

\* a - b for a >= b
WideSub(a, b) ==
    LET d1 == a[1] - b[1]
        b1 == IF d1 < 0 THEN 1 ELSE 0
        d2 == a[2] - b[2] - b1
        b2 == IF d2 < 0 THEN 1 ELSE 0
    IN  <<d1 + b1 * LimbBase, d2 + b2 * LimbBase, a[3] - b[3] - b2>>

\* n * a + c for small n and c
WideTimesPlus(a, n, c) ==
    LET x1 == n * a[1] + c
        x2 == n * a[2] + (x1 \div LimbBase)
    IN  <<x1 % LimbBase, x2 % LimbBase, n * a[3] + (x2 \div LimbBase)>>

\* a div 2
WideHalf(a) ==
    <<(a[1] \div 2) + (a[2] % 2) * (LimbBase \div 2),
      (a[2] \div 2) + (a[3] % 2) * (LimbBase \div 2),
      a[3] \div 2>>

\* the double 0.0
FloatZero == [m |-> WideZero, e |-> 0]

\* the same number m * 2^e (m > 0 below 2^53) with m brought up to 53 bits
RECURSIVE ScaleUp(_)
ScaleUp(f) ==
    IF f.m[3] >= MantissaMin THEN f
    ELSE ScaleUp([m |-> WideTimesPlus(f.m, 2, 0), e |-> f.e - 1])

\* the double nearest to a * 2^e for a >= 2^52: the mantissa is brought
\* down to 53 bits; guard is the last bit dropped, sticky tells whether
\* anything below it was not zero; round to nearest, ties to even
RECURSIVE RoundToDouble(_, _, _, _)
RoundToDouble(a, e, guard, sticky) ==
    IF a[3] >= MantissaMax
    THEN RoundToDouble(WideHalf(a), e + 1, a[1] % 2, sticky \/ guard = 1)
    ELSE LET up == guard = 1 /\ (sticky \/ a[1] % 2 = 1)
             m == IF up THEN WideTimesPlus(a, 1, 1) ELSE a
         IN  IF m[3] >= MantissaMax THEN [m |-> WideHalf(m), e |-> e + 1]
             ELSE [m |-> m, e |-> e]

\* float(n) for a natural number n below 2^18
ToFloat(n) == IF n = 0 THEN FloatZero ELSE ScaleUp([m |-> Wide(n), e |-> 0])

\* long division by d: from the quotient s.q and the remainder s.r so far,
\* the quotient with k more bits and its remainder
RECURSIVE DivideBits(_, _, _)
DivideBits(s, d, k) ==
    IF k = 0 THEN s
    ELSE IF WideGeq(WideTimesPlus(s.r, 2, 0), d)
    THEN DivideBits([q |-> WideTimesPlus(s.q, 2, 1),
                     r |-> WideSub(WideTimesPlus(s.r, 2, 0), d)], d, k - 1)
    ELSE DivideBits([q |-> WideTimesPlus(s.q, 2, 0),
                     r |-> WideTimesPlus(s.r, 2, 0)], d, k - 1)

\* x / y in doubles, y # 0: 54 bits of the quotient of the mantissas, the
\* last one the guard bit, a remainder left makes the quotient inexact
FloatDiv(x, y) ==
    IF x = FloatZero THEN FloatZero
    ELSE LET first == WideGeq(x.m, y.m)
             bits == IF first THEN MantissaBits ELSE MantissaBits + 1
             quot == DivideBits(IF first THEN [q |-> Wide(1), r |-> WideSub(x.m, y.m)]
                                ELSE [q |-> WideZero, r |-> x.m], y.m, bits)
         IN  RoundToDouble(WideHalf(quot.q), x.e - y.e - bits + 1, quot.q[1] % 2,
                           quot.r # WideZero)

\* x * n in doubles, for a natural number n below 2^7 (float(n) is exact)
FloatTimesNat(x, n) ==
    IF x = FloatZero \/ n = 0 THEN FloatZero
    ELSE RoundToDouble(WideTimesPlus(x.m, n, 0), x.e, 0, FALSE)

\* t * 2^k for a natural number t > 0, or some number from 2^53 on if the
\* product is that large
RECURSIVE ScaleNat(_, _)
ScaleNat(t, k) ==
    IF k = 0 \/ t[3] >= MantissaMax THEN t ELSE ScaleNat(WideTimesPlus(t, 2, 0), k - 1)

\* x >= t for a double x and a natural number t with 0 < t < 2^18
FloatGeqNat(x, t) ==
    IF x = FloatZero THEN FALSE
    ELSE IF x.e >= 0 THEN TRUE
    ELSE WideGeq(x.m, ScaleNat(Wide(t), 0 - x.e))

RECURSIVE SumSeq(_)
SumSeq(s) == IF s = <<>> THEN 0 ELSE Head(s) + SumSeq(Tail(s))

MeanFloorDiv(values) == ToFloat(SumSeq(values) \div Len(values))

\* df_results[metric].mean(): the sum of the column over its length
Mean(values) == FloatDiv(ToFloat(SumSeq(values)), ToFloat(Len(values)))

\* calculate_grade(value, avg_value)
calculate_grade(value, avg_value) ==
    IF avg_value = FloatZero
    THEN (IF value = 0 THEN "No Data" ELSE "Above Average")
    ELSE LET percentage == FloatTimesNat(FloatDiv(ToFloat(value), avg_value), 100)
         IN  IF FloatGeqNat(percentage, 135) THEN "Excellent"
             ELSE IF FloatGeqNat(percentage, 90) THEN "Good"
             ELSE IF FloatGeqNat(percentage, 50) THEN "Average"
             ELSE "Below Average"

\* the metric values of the model
GradeExtra == {10, 15}
MetricValues == (0..MaxMetric) \union GradeExtra

GradeIdle ==
    /\ gr_pc = "idle"
    /\ gr_values = <<>>
    /\ gr_mean = FloatZero
    /\ gr_grades = <<>>

\* the results of a batch are in df_results (the page grades only a
\* non-empty batch)
InitGrade ==
    /\ gr_pc = "results"
    /\ gr_values \in SeqsUpTo(MetricValues, MaxBatch) \ {<<>>}
    /\ gr_mean = FloatZero
    /\ gr_grades = <<>>

\* process_and_grade_data, for one metric column
process_and_grade_data ==
    /\ gr_pc = "results"
    /\ gr_mean' = Mean(gr_values)
    /\ gr_grades' = [i \in DOMAIN gr_values |-> calculate_grade(gr_values[i], Mean(gr_values))]
    /\ gr_pc' = "graded"
    /\ UNCHANGED gr_values
    /\ UNCHANGED othersGrade

NextGrade == process_and_grade_data

\* the grade of the claim: value as a percentage of the arithmetic mean
\* total / count of the batch, compared exactly
GradeOfClaim(value, total, count) ==
    IF total = 0 THEN (IF value = 0 THEN "No Data" ELSE "Above Average")
    ELSE IF 100 * value * count >= 135 * total THEN "Excellent"
    ELSE IF 100 * value * count >= 90 * total THEN "Good"
    ELSE IF 100 * value * count >= 50 * total THEN "Average"
    ELSE "Below Average"

\* C14: calculate_grade gives NoData / AboveAverage for a zero mean, and
\* otherwise Excellent from 135% of the batch mean, Good from 90%, Average
\* from 50%, BelowAverage below, each boundary inclusive.
C14_GradeByPercentOfMean ==
    gr_pc = "graded" =>
        \A i \in DOMAIN gr_values :
            gr_grades[i] = GradeOfClaim(gr_values[i], SumSeq(gr_values), Len(gr_values))

\* C30: for any batch of records with non-negative counts graded by
\* process_and_grade_data against the batch's own means, no record receives
\* the grade Above Average for any metric: a zero mean implies every value
\* of that metric is zero, so the only zero-mean grade that occurs is No
\* Data.
C30_NoAboveAverage ==
    gr_pc = "graded" =>
        /\ \A i \in DOMAIN gr_values : gr_values[i] >= 0
        /\ \A i \in DOMAIN gr_grades : gr_grades[i] # "Above Average"
        /\ gr_mean = FloatZero =>
              \A i \in DOMAIN gr_values : gr_values[i] = 0 /\ gr_grades[i] = "No Data"

C30_Witness ==
    /\ gr_pc = "graded"
    /\ gr_mean = FloatZero
    /\ gr_values = <<0, 0, 0>>
    /\ gr_grades = <<"No Data", "No Data", "No Data">>

(***************************************************************************)
(* The response cache of detailed_view, for one cache key.  Time is in     *)
(* whole seconds.  An absent dict entry is "absent"; None is "None".       *)
(***************************************************************************)
CACHE_TTL == 3600

\* timedelta.seconds is the seconds within the last day of the interval,
\* 0..86399; the whole days are in timedelta.days
SecondsPerDay == 86400

TimedeltaSeconds(interval) == interval % SecondsPerDay

\* what the model stores in the cache
CacheData == {"data", "empty"}

\* the amounts of time that pass between two operations
ClockSteps == {1, CACHE_TTL - 1, CACHE_TTL, SecondsPerDay}

CacheIdle ==
    /\ ch_now = 0
    /\ ch_ticks = 0
    /\ ch_cache = "absent"
    /\ ch_timestamps = 0
    /\ ch_pc = "idle"
    /\ ch_result = "None"

\* st.session_state.cache = {} and cache_timestamps = {}
InitCache ==
    /\ ch_now = 0
    /\ ch_ticks = 0
    /\ ch_cache = "absent"
    /\ ch_timestamps = 0
    /\ ch_pc = "start"
    /\ ch_result = "None"

\* time passes
ClockAdvances ==
    /\ ch_ticks < MaxTicks
    /\ \E step \in ClockSteps : ch_now' = ch_now + step
    /\ ch_ticks' = ch_ticks + 1
    /\ ch_pc' = "wait"
    /\ UNCHANGED <<ch_cache, ch_timestamps, ch_result>>
    /\ UNCHANGED othersCache

\* is_cache_valid(cache_key)
is_cache_valid ==
    IF ch_cache = "absent" THEN FALSE
    ELSE TimedeltaSeconds(ch_now - ch_timestamps) < CACHE_TTL

\* get_from_cache(cache_key)
get_from_cache ==
    /\ ch_result' = IF is_cache_valid THEN ch_cache ELSE "None"
    /\ ch_pc' = "get"
    /\ UNCHANGED <<ch_now, ch_ticks, ch_cache, ch_timestamps>>
    /\ UNCHANGED othersCache

\* save_to_cache(cache_key, data)
save_to_cache ==
    /\ \E data \in CacheData : ch_cache' = data
    /\ ch_timestamps' = ch_now
    /\ ch_pc' = "save"
    /\ UNCHANGED <<ch_now, ch_ticks, ch_result>>
    /\ UNCHANGED othersCache

\* clear_cache()
clear_cache ==
    /\ ch_cache' = "absent"
    /\ ch_timestamps' = 0
    /\ ch_pc' = "clear"
    /\ UNCHANGED <<ch_now, ch_ticks, ch_result>>
    /\ UNCHANGED othersCache

NextCache ==
    \/ ClockAdvances
    \/ get_from_cache
    \/ save_to_cache
    \/ clear_cache

\* C15: get_from_cache returns a stored value only while the entry's age is
\* less than CACHE_TTL (3600 seconds); for an entry saved 3600 seconds or
\* more earlier it returns None, whatever the elapsed time.
C15_CacheTimeBoxed ==
    (ch_pc = "get" /\ ch_cache # "absent") =>
        (ch_result # "None" <=> ch_now - ch_timestamps < 3600)

(***************************************************************************)
(* The totals of the date window: the loop over contrib_data.values() of   *)
(* app.py and of process_users (bulk_summary).  A merge request or issue   *)
(* carries the user_comment_count that the gathering step stored on it.    *)
(***************************************************************************)
TotalsDays == 0..MaxDay

TotalsStamp(day) == [kind |-> "iso", date |-> day, time |-> "00:00:00"]

TotalsCommits ==
    {[has_created_at |-> TRUE, created_at |-> TotalsStamp(day)] : day \in TotalsDays}

TotalsParents ==
    {[has_created_at |-> TRUE, created_at |-> TotalsStamp(day), user_comment_count |-> n] :
        day \in TotalsDays, n \in 0..MaxComments}

ProjectData ==
    [commits : SeqsUpTo(TotalsCommits, MaxPerProject),
     mrs : SeqsUpTo(TotalsParents, MaxPerProject),
     issues : SeqsUpTo(TotalsParents, MaxPerProject)]

\* sum(m.get("user_comment_count", 0) for m in items)
RECURSIVE SumCommentCounts(_)
SumCommentCounts(items) ==
    IF items = <<>> THEN 0
    ELSE Head(items).user_comment_count + SumCommentCounts(Tail(items))

\* the loop "for pdata in contrib_data.values()", from the totals in acc
RECURSIVE TotalsLoop(_, _, _, _)
TotalsLoop(data, start_date, end_date, acc) ==
    IF data = <<>> THEN acc
    ELSE LET pdata == Head(data)
         IN  TotalsLoop(Tail(data), start_date, end_date,
                 [commits |-> acc.commits
                      + count_items_by_date(pdata.commits, start_date, end_date),
                  mrs |-> acc.mrs
                      + count_items_by_date(pdata.mrs, start_date, end_date),
                  issues |-> acc.issues
                      + count_items_by_date(pdata.issues, start_date, end_date),
                  issue_comments |-> acc.issue_comments + SumCommentCounts(pdata.issues),
                  mr_comments |-> acc.mr_comments + SumCommentCounts(pdata.mrs)])

TotalsIdle ==
    /\ tt_pc = "idle"
    /\ tt_data = <<>>
    /\ tt_start = 0
    /\ tt_end = 0
    /\ tt_commits = 0
    /\ tt_mrs = 0
    /\ tt_issues = 0
    /\ tt_mr_comments = 0
    /\ tt_issue_comments = 0

InitTotals ==
    /\ tt_pc = "ready"
    /\ tt_data \in [1..NProj -> ProjectData]
    /\ tt_start \in WindowDays
    /\ tt_end \in WindowDays
    /\ tt_start <= tt_end
    /\ tt_commits = 0
    /\ tt_mrs = 0
    /\ tt_issues = 0
    /\ tt_mr_comments = 0
    /\ tt_issue_comments = 0

Totals(page) ==
    /\ tt_pc = "ready"
    /\ LET t == TotalsLoop(tt_data, tt_start, tt_end,
                    [commits |-> 0, mrs |-> 0, issues |-> 0,
                     issue_comments |-> 0, mr_comments |-> 0])
       IN  /\ tt_commits' = t.commits
           /\ tt_mrs' = t.mrs
           /\ tt_issues' = t.issues
           /\ tt_mr_comments' = t.mr_comments
           /\ tt_issue_comments' = t.issue_comments
    /\ tt_pc' = page
    /\ UNCHANGED <<tt_data, tt_start, tt_end>>
    /\ UNCHANGED othersTotals

\* app.py: the totals of the single-user page
app_totals == Totals("app")

\* bulk_summary: the totals of one user in process_users
process_users_totals == Totals("bulk_summary")

NextTotals ==
    \/ app_totals
    \/ process_users_totals

\* the comment counts of the parents of items whose created_at lies in the window
RECURSIVE CommentsInWindow(_, _, _)
CommentsInWindow(items, start_date, end_date) ==
    IF items = <<>> THEN 0
    ELSE (IF Head(items).created_at.date \in start_date..end_date
          THEN Head(items).user_comment_count ELSE 0)
         + CommentsInWindow(Tail(items), start_date, end_date)

\* C16: the merge-request-comment and issue-comment totals shown for a date
\* window are the sums of the per-item comment counts of exactly those merge
\* requests and issues whose created_at lies in the window.
C16_CommentTotalsInWindow ==
    tt_pc \in {"app", "bulk_summary"} =>
        /\ tt_mr_comments = CommentsInWindow(tt_data[1].mrs, tt_start, tt_end)
                            + CommentsInWindow(tt_data[2].mrs, tt_start, tt_end)
        /\ tt_issue_comments = CommentsInWindow(tt_data[1].issues, tt_start, tt_end)
                               + CommentsInWindow(tt_data[2].issues, tt_start, tt_end)

(***************************************************************************)
(* The cap on the projects carried forward from the project lists to the   *)
(* collection of contributions (progress_view, detailed_view, app.py).     *)
(* A project is its id; a channel returns a list of distinct ids.          *)
(***************************************************************************)
PROJECT_CAP == 50

ListSizes == {0, 1, MaxListed - 2, MaxListed - 1, MaxListed}

\* the list of n projects that follow the first offset projects
ProjectList(offset, n) == [i \in 1..n |-> offset + i]

\* a dict keyed by project id, filled in list order: list(d.values()) holds
\* each id once, at the place of its first occurrence
DictValues(list) ==
    LET first == {i \in DOMAIN list : \A j \in 1..(i - 1) : list[j] # list[i]}
        place(i) == Cardinality({j \in first : j <= i})
    IN  [k \in 1..Cardinality(first) |-> list[CHOOSE i \in first : place(i) = k]]

\* list[:n]
Slice(list, n) == SubSeq(list, 1, IF Len(list) < n THEN Len(list) ELSE n)

CapIdle ==
    /\ cp_pc = "idle"
    /\ cp_owned = <<>>
    /\ cp_contributed = <<>>
    /\ cp_accessible = <<>>
    /\ cp_projects = <<>>
    /\ cp_warned = FALSE

InitCap ==
    /\ cp_pc = "ready"
    /\ \E a \in ListSizes, c \in ListSizes, d \in ListSizes :
         /\ cp_owned = ProjectList(0, a)
         /\ \E offset \in {0, a} : cp_contributed = ProjectList(offset, c)
         /\ \E offset \in {0, a + c} : cp_accessible = ProjectList(offset, d)
    /\ cp_projects = <<>>
    /\ cp_warned = FALSE

\* progress_view gather_user_data: the first 50 of the owned and contributed
\* projects
gather_user_data_projects ==
    /\ cp_pc = "ready"
    /\ cp_projects' = Slice(DictValues(cp_owned \o cp_contributed), PROJECT_CAP)
    /\ cp_pc' = "progress_view"
    /\ UNCHANGED <<cp_owned, cp_contributed, cp_accessible, cp_warned>>
    /\ UNCHANGED othersCap

\* detailed_view gather_data: a warning and the first 50 when there are more
gather_data_projects ==
    /\ cp_pc = "ready"
    /\ LET projects == DictValues(cp_owned \o cp_contributed \o cp_accessible)
       IN  IF Len(projects) > PROJECT_CAP
           THEN /\ cp_warned' = TRUE
                /\ cp_projects' = Slice(projects, PROJECT_CAP)
           ELSE /\ cp_warned' = FALSE
                /\ cp_projects' = projects
    /\ cp_pc' = "detailed_view"
    /\ UNCHANGED <<cp_owned, cp_contributed, cp_accessible>>
    /\ UNCHANGED othersCap

\* app.py _gather_data: every unique project
app_gather_data_projects ==
    /\ cp_pc = "ready"
    /\ cp_projects' = DictValues(cp_owned \o cp_contributed)
    /\ cp_pc' = "app"
    /\ UNCHANGED <<cp_owned, cp_contributed, cp_accessible, cp_warned>>
    /\ UNCHANGED othersCap

NextCap ==
    \/ gather_user_data_projects
    \/ gather_data_projects
    \/ app_gather_data_projects

\* C18: the number of projects carried forward from project resolution to
\* contribution collection never exceeds the cap of 50, whatever the number
\* of projects the discovery channels return.
C18_ProjectsAtMostCap ==
    cp_pc # "ready" => Len(cp_projects) <= 50

\* the distinct projects the channels of the page returned
Discovered ==
    {cp_owned[i] : i \in DOMAIN cp_owned}
        \cup {cp_contributed[i] : i \in DOMAIN cp_contributed}
        \cup (IF cp_pc = "detailed_view"
              THEN {cp_accessible[i] : i \in DOMAIN cp_accessible} ELSE {})

\* C19: whenever project resolution drops projects because more than the cap
\* were discovered, the caller is told that truncation occurred; projects
\* are never dropped silently.
C19_TruncationReported ==
    (cp_pc # "ready" /\ Len(cp_projects) < Cardinality(Discovered)) => cp_warned

(***************************************************************************)
(* is_commit_by_author (detailed_view), over the strings above; None is   *)
(* NoneStr.                                                                *)
(***************************************************************************)
NoneStr == <<"None">>

\* str.strip()
StripSpaces(s) ==
    LET inked == {i \in DOMAIN s : s[i] # " "}
    IN  IF inked = {} THEN <<>>
        ELSE SubSeq(s, CHOOSE i \in inked : \A j \in inked : i <= j,
                       CHOOSE i \in inked : \A j \in inked : j <= i)

\* str.split(): the words between runs of spaces
Split(s) ==
    LET starts == {i \in DOMAIN s : s[i] # " " /\ (i = 1 \/ s[i - 1] = " ")}
        ends == {i \in DOMAIN s : s[i] # " " /\ (i = Len(s) \/ s[i + 1] = " ")}
        nth(S, k) == CHOOSE i \in S : Cardinality({j \in S : j <= i}) = k
    IN  [k \in 1..Cardinality(starts) |-> SubSeq(s, nth(starts, k), nth(ends, k))]

\* x.lower().strip() if x else ""
LowerStripOrEmpty(x) == IF x = NoneStr \/ x = <<>> THEN <<>> ELSE StripSpaces(Lower(x))

is_commit_by_author(commit, user_id, username, user_email, user_name) ==
    LET author_name == StripSpaces(Lower(commit.author_name))
        author_email == StripSpaces(Lower(commit.author_email))
        committer_name == StripSpaces(Lower(commit.committer_name))
        committer_email == StripSpaces(Lower(commit.committer_email))
        username_lower == StripSpaces(Lower(username))
        user_email_lower == LowerStripOrEmpty(user_email)
        user_name_lower == LowerStripOrEmpty(user_name)
        name_parts == Split(user_name_lower)
    IN  \/ /\ user_email_lower # <<>>
           /\ (author_email = user_email_lower \/ committer_email = user_email_lower)
        \/ author_name = username_lower
        \/ committer_name = username_lower
        \/ /\ user_name_lower # <<>>
           /\ (author_name = user_name_lower \/ committer_name = user_name_lower)
        \/ /\ user_name_lower # <<>>
           /\ Len(name_parts) >= 2
           /\ LET first_name == name_parts[1]
                  last_name == name_parts[Len(name_parts)]
              IN  \/ IsSubstr(first_name, author_name) /\ IsSubstr(last_name, author_name)
                  \/ IsSubstr(first_name, committer_name)
                       /\ IsSubstr(last_name, committer_name)

\* the names and e-mail addresses of the model: "", "al", "a l", "A L ",
\* "l.a", "x", "alx" and "", "a@x", "A@x ", "x@x"
CommitNames ==
    {<<>>, <<"a", "l">>, <<"a", " ", "l">>, <<"A", " ", "L", " ">>,
     <<"l", ".", "a">>, <<"x">>, <<"a", "l", "x">>}

CommitEmails ==
    {<<>>, <<"a", "@", "x">>, <<"A", "@", "x", " ">>, <<"x", "@", "x">>}

MatcherCommits ==
    [author_id : {0} \cup UserIds, author_name : CommitNames, author_email : CommitEmails,
     committer_name : {<<>>, <<"a", " ", "l">>, <<"x">>},
     committer_email : {<<>>, <<"a", "@", "x">>, <<"x", "@", "x">>}]

MatcherUsers ==
    [id : UserIds, username : {<<"a", "l">>, <<"A", "l", " ">>},
     email : {NoneStr, <<>>, <<"a", "@", "x">>},
     name : {NoneStr, <<>>, <<"a", " ", "l">>, <<"A", " ", " ", "L">>, <<"a", "l">>}]

MatcherIdle ==
    /\ mt_pc = "idle"
    /\ mt_commit = <<>>
    /\ mt_user = <<>>
    /\ mt_result = FALSE

InitMatcher ==
    /\ mt_pc = "ready"
    /\ mt_commit \in MatcherCommits
    /\ mt_user \in MatcherUsers
    /\ mt_result = FALSE

MatcherCall ==
    /\ mt_pc = "ready"
    /\ mt_result' = is_commit_by_author(mt_commit, mt_user.id, mt_user.username,
                                        mt_user.email, mt_user.name)
    /\ mt_pc' = "done"
    /\ UNCHANGED <<mt_commit, mt_user>>
    /\ UNCHANGED othersMatcher

\* app.py fetch_commits, strategy 3, for one commit of all_commits: the user
\* record of GET /users/:id, then name_match or email_match; a null name or
\* username raises at .lower() and the strategy appends nothing
ManualMatchCall ==
    /\ mt_pc = "ready"
    /\ mt_result' =
           IF mt_user.name = NoneStr THEN FALSE
           ELSE ManualMatch(mt_commit,
                    [name |-> mt_user.name, username |-> mt_user.username,
                     email |-> IF mt_user.email = NoneStr THEN <<>> ELSE mt_user.email,
                     public_email |-> <<>>])
    /\ mt_pc' = "manual"
    /\ UNCHANGED <<mt_commit, mt_user>>
    /\ UNCHANGED othersMatcher

NextMatcher ==
    \/ MatcherCall
    \/ ManualMatchCall

\* C20: for every event that carries a structured author.id equal to the
\* identity's id, the author matcher returns true, regardless of the event's
\* author_name, author_email, committer_name and committer_email.
C20_AuthorIdMatches ==
    (mt_pc = "done" /\ mt_commit.author_id = mt_user.id) => mt_result

\* the name and e-mail fields of the commit and of the identity, compared
\* without case and surrounding blanks; None and "" are no value
Folded(x) == IF x = NoneStr THEN <<>> ELSE StripSpaces(Lower(x))

\* one of the three rules of the cascade holds for the commit
CascadeRuleHolds(commit, user) ==
    LET names == {Folded(commit.author_name), Folded(commit.committer_name)}
        emails == {Folded(commit.author_email), Folded(commit.committer_email)}
        tokens == Split(Folded(user.name))
    IN  \/ Folded(user.email) # <<>> /\ Folded(user.email) \in emails
        \/ Folded(user.username) \in names
        \/ Folded(user.name) # <<>> /\ Folded(user.name) \in names
        \/ /\ Len(tokens) >= 2
           /\ \E n \in names : IsSubstr(tokens[1], n) /\ IsSubstr(tokens[Len(tokens)], n)

\* C21: the client-side commit matcher accepts a commit only when one of the
\* cascade rules holds (an identity e-mail equals author_email or
\* committer_email, the username or display name equals author_name or
\* committer_name, case-insensitively, or the display name has at least two
\* tokens whose first and last both occur in the same name field); a commit
\* for which none of these holds is rejected.
C21_AcceptedOnlyByCascade ==
    (mt_pc \in {"done", "manual"} /\ mt_result) => CascadeRuleHolds(mt_commit, mt_user)

(***************************************************************************)
(* fetch_json_with_pagination (progress_view).  A response has a status,   *)
(* a JSON list of items and a Link header; session.get may also raise.     *)
(***************************************************************************)
PageItems == 1..2

\* the Link header: absent, or with the relations it names
LinkHeaders == {"", "prev", "next", "prev, next"}

PageResponses ==
    [status : {200}, data : SeqsUpTo(PageItems, MaxResp), link : LinkHeaders]
        \cup [status : {404}, data : {<<>>}, link : {""}]

\* 'rel="next"' in link_header
HasRelNext(link) == link \in {"next", "prev, next"}

MorePagesOffByOne(page, max_pages) == page <= max_pages + 1

\* while page <= max_pages
MorePages(page, max_pages) == page <= max_pages

PagingIdle ==
    /\ pg_pc = "idle"
    /\ pg_page = 0
    /\ pg_max_pages = 0
    /\ pg_all_data = <<>>
    /\ pg_requests = <<>>
    /\ pg_received = <<>>

\* all_data = []; page = 1
InitPaging ==
    /\ pg_pc = "loop"
    /\ pg_page = 1
    /\ pg_max_pages \in 1..MaxPagesAsked
    /\ pg_all_data = <<>>
    /\ pg_requests = <<>>
    /\ pg_received = <<>>

\* the loop test: the request for the page goes out, or return all_data
PageRequest ==
    /\ pg_pc = "loop"
    /\ IF MorePages(pg_page, pg_max_pages)
       THEN /\ pg_requests' = Append(pg_requests, pg_page)
            /\ pg_pc' = "awaiting"
       ELSE /\ pg_requests' = pg_requests
            /\ pg_pc' = "returned"
    /\ UNCHANGED <<pg_page, pg_max_pages, pg_all_data, pg_received>>
    /\ UNCHANGED othersPaging

\* the body of the loop once the response is there
PageResponse ==
    /\ pg_pc = "awaiting"
    /\ \E r \in PageResponses :
         /\ pg_received' = Append(pg_received, r)
         /\ IF r.status # 200 \/ r.data = <<>>
            THEN /\ pg_pc' = "returned"
                 /\ UNCHANGED <<pg_all_data, pg_page>>
            ELSE /\ pg_all_data' = pg_all_data \o r.data
                 /\ IF ~HasRelNext(r.link)
                    THEN /\ pg_pc' = "returned"
                         /\ pg_page' = pg_page
                    ELSE /\ pg_pc' = "loop"
                         /\ pg_page' = pg_page + 1
    /\ UNCHANGED <<pg_max_pages, pg_requests>>
    /\ UNCHANGED othersPaging

\* session.get or response.json raises: the exception leaves the function
PageRaises ==
    /\ pg_pc = "awaiting"
    /\ pg_pc' = "raised"
    /\ UNCHANGED <<pg_page, pg_max_pages, pg_all_data, pg_requests, pg_received>>
    /\ UNCHANGED othersPaging

NextPaging ==
    \/ PageRequest
    \/ PageResponse
    \/ PageRaises

\* a response after which the function asks for no further page
LastPage(r) == r.status # 200 \/ r.data = <<>> \/ r.link \notin {"next", "prev, next"}

\* the items of the responses, in the order of the responses
RECURSIVE ItemsOf(_)
ItemsOf(responses) ==
    IF responses = <<>> THEN <<>>
    ELSE (IF Head(responses).status = 200 THEN Head(responses).data ELSE <<>>)
         \o ItemsOf(Tail(responses))

C24_PagesInOrder ==
    /\ Len(pg_requests) <= pg_max_pages
    /\ \A i \in DOMAIN pg_requests : pg_requests[i] = i
    /\ \A i \in DOMAIN pg_received :
         LastPage(pg_received[i]) => (i = Len(pg_received) /\ pg_pc = "returned")
    /\ pg_pc = "returned" =>
         /\ Len(pg_received) = Len(pg_requests)
         /\ pg_received # <<>>
         /\ Len(pg_requests) < pg_max_pages => LastPage(pg_received[Len(pg_received)])
         /\ pg_all_data = ItemsOf(pg_received)

\* C24: fetch_json_with_pagination always terminates after at most max_pages
\* page requests, requests pages 1, 2, ... in order, stops at the first
\* response that has no rel="next" link (or is empty or not status 200), and
\* returns the concatenation, in page order, of the items of all pages
\* received before stopping.
C24_PaginationBounded ==
    /\ []C24_PagesInOrder
    /\ <>(pg_pc \in {"returned", "raised"})

C24_Witness ==
    /\ pg_pc = "returned"
    /\ pg_max_pages = 3
    /\ Len(pg_received) = 2
    /\ pg_received[1].data = <<2, 1>>
    /\ pg_received[2].data = <<1>>
    /\ pg_received[2].link = "prev"
    /\ pg_all_data = <<2, 1, 1>>

(***************************************************************************)
(* The state tallies of process_project (progress_view), for one project   *)
(* and from zero.  An item is the value of its "state" ("" when the key    *)
(* is missing).                                                            *)
(***************************************************************************)
StateStrings == {"opened", "closed", "merged", "locked", "Opened", "total", ""}

\* str.lower() of a state string
LowerState(state) == IF state = "Opened" THEN "opened" ELSE state

\* [mr.get("state", "").lower() for mr in mrs]
LowerStates(items) == [i \in DOMAIN items |-> LowerState(items[i])]

TallyIdle ==
    /\ tl_pc = "idle"
    /\ tl_mrs = <<>>
    /\ tl_issues = <<>>
    /\ tl_total_mrs = [opened |-> 0, closed |-> 0, merged |-> 0, total |-> 0]
    /\ tl_total_issues = [opened |-> 0, closed |-> 0, total |-> 0]

InitTally ==
    /\ tl_pc = "mrs"
    /\ tl_mrs \in SeqsUpTo(StateStrings, MaxResp)
    /\ tl_issues \in SeqsUpTo(StateStrings, MaxResp)
    /\ tl_total_mrs = [opened |-> 0, closed |-> 0, merged |-> 0, total |-> 0]
    /\ tl_total_issues = [opened |-> 0, closed |-> 0, total |-> 0]

\* the merge requests are there: the loop over mrs and the total
TallyMrs ==
    /\ tl_pc = "mrs"
    /\ tl_total_mrs' = Tally(tl_total_mrs, LowerStates(tl_mrs))
    /\ tl_pc' = "issues"
    /\ UNCHANGED <<tl_mrs, tl_issues, tl_total_issues>>
    /\ UNCHANGED othersTally

\* the issues are there: the loop over issues and the total
TallyIssues ==
    /\ tl_pc = "issues"
    /\ tl_total_issues' = Tally(tl_total_issues, LowerStates(tl_issues))
    /\ tl_pc' = "done"
    /\ UNCHANGED <<tl_mrs, tl_issues, tl_total_mrs>>
    /\ UNCHANGED othersTally

NextTally ==
    \/ TallyMrs
    \/ TallyIssues

\* the number of items whose state is the given one, whatever its case
WithState(items, state) ==
    Cardinality({i \in DOMAIN items : LowerState(items[i]) = state})

\* C25: in the per-identity merge request and issue tallies the category
\* total equals the number of items fetched, each item with a recognised
\* state (opened, closed, merged for merge requests; opened, closed for
\* issues) increments exactly that state's bucket, and an item with any other
\* state string increments no bucket and adds exactly one to the total.
C25_TallyByState ==
    tl_pc = "done" =>
        /\ tl_total_mrs["total"] = Len(tl_mrs)
        /\ \A s \in {"opened", "closed", "merged"} :
               tl_total_mrs[s] = WithState(tl_mrs, s)
        /\ tl_total_issues["total"] = Len(tl_issues)
        /\ \A s \in {"opened", "closed"} :
               tl_total_issues[s] = WithState(tl_issues, s)

(***************************************************************************)
(* The fetch / display flow of progress_view.  A username is a number (the *)
(* numbers sort as the names do).  fetched_data is represented by the      *)
(* parameters it was fetched for; None is NoParams.  md5 is taken to be    *)
(* injective, so a hash is the string it was computed from.                *)
(***************************************************************************)
CsvUsernames == UNION {[1..n -> 1..MaxUsers] : n \in 1..MaxUsers}

NoParams == [usernames |-> <<>>, start_date |-> 0, end_date |-> 0]

\* sorted(usernames)
Sorted(usernames) ==
    CHOOSE s \in [DOMAIN usernames -> Range(usernames)] :
        /\ \A i, j \in DOMAIN s : i < j => s[i] <= s[j]
        /\ \A u \in Range(usernames) :
               Cardinality({i \in DOMAIN s : s[i] = u})
                   = Cardinality({i \in DOMAIN usernames : usernames[i] = u})

\* f"{','.join(sorted(usernames))}{start_date}{end_date}", hashed
get_data_hash(usernames, start_date, end_date) ==
    [usernames |-> Sorted(usernames), start_date |-> start_date, end_date |-> end_date]

SessionIdle ==
    /\ pv_usernames = <<>>
    /\ pv_start = 0
    /\ pv_end = 0
    /\ pv_fetched_data = NoParams
    /\ pv_data_hash = NoParams
    /\ pv_displayed = NoParams
    /\ pv_buttons = {}
    /\ pv_rerun = FALSE

\* a CSV is loaded and the page has run once: nothing is fetched, the
\* button "Fetch Data" is on the page
InitSession ==
    /\ pv_usernames \in CsvUsernames
    /\ pv_start \in WindowDays
    /\ pv_end \in WindowDays
    /\ pv_fetched_data = NoParams
    /\ pv_data_hash = NoParams
    /\ pv_displayed = NoParams
    /\ pv_buttons = {"Fetch Data"}
    /\ pv_rerun = FALSE

\* one run of the script with the given widget values; click is the button
\* pressed ("" for none), got_data whether gather_all_user_data returned
\* any record
ScriptRun(usernames, start_date, end_date, click, got_data) ==
    LET current_hash == get_data_hash(usernames, start_date, end_date)
        fetched == pv_data_hash = current_hash /\ pv_fetched_data # NoParams
        stored == click = "Fetch Data" /\ got_data
        fetched_data == IF stored
                        THEN [usernames |-> usernames, start_date |-> start_date,
                              end_date |-> end_date]
                        ELSE pv_fetched_data
    IN  /\ pv_usernames' = usernames
        /\ pv_start' = start_date
        /\ pv_end' = end_date
        /\ IF click = "Process Cached Data"
           THEN /\ pv_rerun' = TRUE
                /\ pv_displayed' = NoParams
                /\ pv_buttons' = {}
                /\ UNCHANGED <<pv_fetched_data, pv_data_hash>>
           ELSE IF click = "Force Refresh"
           THEN /\ pv_rerun' = TRUE
                /\ pv_fetched_data' = NoParams
                /\ pv_data_hash' = NoParams
                /\ pv_displayed' = NoParams
                /\ pv_buttons' = {}
           ELSE /\ pv_rerun' = FALSE
                /\ pv_displayed' = fetched_data
                /\ pv_buttons' =
                      (IF fetched THEN {"Process Cached Data", "Force Refresh"}
                       ELSE {"Fetch Data"})
                      \cup (IF fetched_data # NoParams THEN {"Reset All Data"} ELSE {})
                /\ IF click = "Reset All Data"
                   THEN /\ pv_fetched_data' = NoParams
                        /\ pv_data_hash' = NoParams
                   ELSE /\ pv_fetched_data' = fetched_data
                        /\ pv_data_hash' = IF stored THEN current_hash ELSE pv_data_hash
        /\ UNCHANGED othersSession

\* the user loads another CSV or changes a date: the script runs again
ChangeParameters ==
    /\ ~pv_rerun
    /\ \E usernames \in CsvUsernames, start_date \in WindowDays, end_date \in WindowDays :
         ScriptRun(usernames, start_date, end_date, "", FALSE)

\* st.rerun(): the script runs again with the same widget values
Rerun ==
    /\ pv_rerun
    /\ ScriptRun(pv_usernames, pv_start, pv_end, "", FALSE)

ClickProcessCachedData ==
    /\ ~pv_rerun
    /\ "Process Cached Data" \in pv_buttons
    /\ ScriptRun(pv_usernames, pv_start, pv_end, "Process Cached Data", FALSE)

ClickForceRefresh ==
    /\ ~pv_rerun
    /\ "Force Refresh" \in pv_buttons
    /\ ScriptRun(pv_usernames, pv_start, pv_end, "Force Refresh", FALSE)

ClickFetchData ==
    /\ ~pv_rerun
    /\ "Fetch Data" \in pv_buttons
    /\ \E got_data \in BOOLEAN :
         ScriptRun(pv_usernames, pv_start, pv_end, "Fetch Data", got_data)

ClickResetAllData ==
    /\ ~pv_rerun
    /\ "Reset All Data" \in pv_buttons
    /\ ScriptRun(pv_usernames, pv_start, pv_end, "Reset All Data", FALSE)

NextSession ==
    \/ ChangeParameters
    \/ Rerun
    \/ ClickProcessCachedData
    \/ ClickForceRefresh
    \/ ClickFetchData
    \/ ClickResetAllData

\* C26: in progress_view, whenever graded results are displayed, the stored
\* fetched_data was fetched for the currently selected usernames and date
\* window, i.e. the hash of the parameters it was fetched for equals the hash
\* of the current parameters; changing the CSV or the date range without a
\* new fetch never shows the results of the previous parameters.
C26_DisplayedMatchesParameters ==
    pv_displayed # NoParams =>
        get_data_hash(pv_displayed.usernames, pv_displayed.start_date,
                      pv_displayed.end_date)
            = get_data_hash(pv_usernames, pv_start, pv_end)

(***************************************************************************)
(* The fetch / display flow of app.py and detailed_view.  A username is a  *)
(* number; 0 is the empty input, and also None / "" in session_state.  The *)
(* data of a user is represented by the username it was fetched for.       *)
(***************************************************************************)
EnteredNames == 0..MaxNames

EntryIdle ==
    /\ en_page = "idle"
    /\ en_username = 0
    /\ en_fetched_username = 0
    /\ en_user_data = 0
    /\ en_displayed = 0
    /\ en_rerun = FALSE
    /\ en_fetch = "none"

\* the session state after its initialisation and a first run with an
\* empty input
InitEntry ==
    /\ en_page \in {"app", "detailed_view"}
    /\ en_username = 0
    /\ en_fetched_username = 0
    /\ en_user_data = 0
    /\ en_displayed = 0
    /\ en_rerun = FALSE
    /\ en_fetch = "none"

\* app.py: username and username != st.session_state.fetched_username;
\* detailed_view: need_fetch
NeedFetch(page, username) ==
    /\ username # 0
    /\ IF page = "app" THEN username # en_fetched_username
       ELSE username # en_fetched_username \/ en_user_data = 0

\* app.py: if st.session_state.fetched_user_data;
\* detailed_view: if username and st.session_state.user_data
ShowsData(page, username, user_data) ==
    IF page = "app" THEN user_data # 0
    ELSE username # 0 /\ user_data # 0

\* one run of the script without the reset button: the fetch if it is
\* needed (fetched tells whether it succeeded), then the display
EntryRun(username, fetched) ==
    LET stored == NeedFetch(en_page, username) /\ fetched
        user_data == IF stored THEN username ELSE en_user_data
    IN  /\ en_username' = username
        /\ en_user_data' = user_data
        /\ en_fetched_username' = IF stored THEN username ELSE en_fetched_username
        /\ en_displayed' = IF ShowsData(en_page, username, user_data) THEN user_data ELSE 0
        /\ en_rerun' = FALSE
        /\ en_fetch' = IF ~NeedFetch(en_page, username) THEN "none"
                       ELSE IF fetched THEN "fetched" ELSE "failed"
        /\ UNCHANGED en_page
        /\ UNCHANGED othersEntry

\* the user enters a username: the script runs
EnterUsername ==
    /\ ~en_rerun
    /\ \E username \in EnteredNames, fetched \in BOOLEAN : EntryRun(username, fetched)

\* "Reset Data" (app.py), "Reset All" (detailed_view): the stored data and
\* username are cleared and st.rerun() is called
ClickReset ==
    /\ ~en_rerun
    /\ en_user_data' = 0
    /\ en_fetched_username' = 0
    /\ en_displayed' = 0
    /\ en_rerun' = TRUE
    /\ en_fetch' = "none"
    /\ UNCHANGED <<en_page, en_username>>
    /\ UNCHANGED othersEntry

\* st.rerun(): the script runs again; the input of detailed_view, whose
\* default is last_username, keeps its text or falls back to the default
EntryRerun ==
    /\ en_rerun
    /\ \E username \in {en_username} \cup (IF en_page = "app" THEN {} ELSE {en_fetched_username}),
          fetched \in BOOLEAN :
         EntryRun(username, fetched)

NextEntry ==
    \/ EnterUsername
    \/ ClickReset
    \/ EntryRerun

\* C27: in app.py and detailed_view, after any sequence of username entries,
\* successful fetches, failed fetches and resets, the contribution data
\* displayed belongs to the username currently entered: when the fetch for a
\* newly entered username fails, the data of the previously fetched user is
\* not displayed.
C27_DisplayedIsEnteredUser ==
    /\ en_fetch = "failed" => en_displayed = 0
    /\ en_displayed # 0 => en_displayed = en_username

(***************************************************************************)
(* fetch_commits_by_author and fetch_merge_requests_by_author with their   *)
(* cache entries, called repeatedly for the same project and user within   *)
(* the TTL.  A cache entry is "absent", "[]" or "list" (a non-empty list). *)
(***************************************************************************)
CommitCacheIdle ==
    /\ cc_pc = "idle"
    /\ cc_email = FALSE
    /\ cc_calls = 0
    /\ cc_strategy = 0
    /\ cc_verified = FALSE
    /\ cc_all_raised = FALSE
    /\ cc_commits_entry = "absent"
    /\ cc_last = "none"
    /\ cc_mr_calls = 0
    /\ cc_mrs_entry = "absent"
    /\ cc_mr_last = "none"

InitCommitCache ==
    /\ cc_pc = "caller"
    /\ cc_email \in BOOLEAN
    /\ cc_calls = 0
    /\ cc_strategy = 0
    /\ cc_verified = FALSE
    /\ cc_all_raised = FALSE
    /\ cc_commits_entry = "absent"
    /\ cc_last = "none"
    /\ cc_mr_calls = 0
    /\ cc_mrs_entry = "absent"
    /\ cc_mr_last = "none"

\* fetch_commits_by_author is called: the cached list is returned, or
\* strategy 1 sends its request
CallFetchCommits ==
    /\ cc_pc = "caller"
    /\ cc_calls < MaxCalls
    /\ cc_calls' = cc_calls + 1
    /\ IF cc_commits_entry # "absent"
       THEN /\ cc_last' = "cached"
            /\ UNCHANGED <<cc_pc, cc_strategy, cc_verified, cc_all_raised>>
       ELSE /\ cc_pc' = "strategy"
            /\ cc_strategy' = 1
            /\ cc_verified' = FALSE
            /\ cc_all_raised' = TRUE
            /\ cc_last' = "fetching"
    /\ UNCHANGED <<cc_email, cc_commits_entry, cc_mr_calls, cc_mrs_entry, cc_mr_last>>
    /\ UNCHANGED othersCommitCache

\* the request of the current strategy answers or raises (except Exception:
\* pass); after the last strategy the list is saved to the cache and returned
StrategyAnswers ==
    /\ cc_pc = "strategy"
    /\ \E r \in Responses :
         LET verified == cc_verified \/ r = "data"
             all_raised == cc_all_raised /\ FetchJsonRaises(r)
             next == NextStrategy(cc_strategy, verified, cc_email)
         IN  /\ cc_verified' = verified
             /\ cc_all_raised' = all_raised
             /\ IF next # 0
                THEN /\ cc_strategy' = next
                     /\ UNCHANGED <<cc_pc, cc_commits_entry, cc_last>>
                ELSE /\ cc_strategy' = 0
                     /\ cc_pc' = "caller"
                     /\ cc_commits_entry' = IF verified THEN "list" ELSE "[]"
                     /\ cc_last' = IF all_raised THEN "all raised" ELSE "fetched"
    /\ UNCHANGED <<cc_email, cc_calls, cc_mr_calls, cc_mrs_entry, cc_mr_last>>
    /\ UNCHANGED othersCommitCache

\* fetch_merge_requests_by_author, the whole call: the cached list, or the
\* request; the filtered list is saved, except Exception: return []
CallFetchMergeRequests ==
    /\ cc_pc = "caller"
    /\ cc_mr_calls < MaxCalls
    /\ cc_mr_calls' = cc_mr_calls + 1
    /\ IF cc_mrs_entry # "absent"
       THEN /\ cc_mr_last' = "cached"
            /\ UNCHANGED cc_mrs_entry
       ELSE \E r \in Responses :
              IF FetchJsonRaises(r)
              THEN /\ cc_mr_last' = "all raised"
                   /\ UNCHANGED cc_mrs_entry
              ELSE /\ cc_mr_last' = "fetched"
                   /\ cc_mrs_entry' = IF r = "data" THEN "list" ELSE "[]"
    /\ UNCHANGED <<cc_pc, cc_email, cc_calls, cc_strategy, cc_verified, cc_all_raised,
                   cc_commits_entry, cc_last>>
    /\ UNCHANGED othersCommitCache

NextCommitCache ==
    \/ CallFetchCommits
    \/ StrategyAnswers
    \/ CallFetchMergeRequests

\* C28: fetch_commits_by_author stores a result in the cache only when a
\* remote fetch succeeded: when every strategy fails with an error, nothing
\* is cached, so the next call for the same project and user within the TTL
\* retries the remote fetch instead of returning a cached empty list (as
\* fetch_merge_requests_by_author does on failure).
C28_FailureNotCached ==
    /\ cc_last = "all raised" => cc_commits_entry = "absent"
    /\ cc_mr_last = "all raised" => cc_mrs_entry = "absent"

(***************************************************************************)
(* The semaphore of fetch_all_users (progress_view) for CSVs of more than  *)
(* one batch.  The tasks of a batch are counted, not told apart; a         *)
(* username is its position in the list.                                   *)
(***************************************************************************)
PoolUsers == 1..MaxPool

\* how gather_user_data leaves the block "async with semaphore"
ExitPaths == {"record", "user not found", "exception"}

PermitsAfterExitLeaking(value, path) == IF path = "exception" THEN value ELSE value + 1

\* async with semaphore: __aexit__ releases the permit however the block ends
PermitsAfterExit(value, path) == value + 1

\* usernames[i:i+BATCH_SIZE], as positions of the list
Slice10(i, n) == {u \in PoolUsers : i < u /\ u <= i + BATCH_SIZE /\ u <= n}

PoolIdle ==
    /\ sm_pc = "idle"
    /\ sm_n = 0
    /\ sm_i = 0
    /\ sm_value = 0
    /\ sm_waiting = 0
    /\ sm_holding = 0
    /\ sm_ended = 0
    /\ sm_attempts = [u \in PoolUsers |-> 0]
    /\ sm_records = 0

\* semaphore = asyncio.Semaphore(SEMAPHORE_LIMIT); all_data = []
InitPool ==
    /\ sm_pc = "loop"
    /\ sm_n \in 0..MaxPool
    /\ sm_i = 0
    /\ sm_value = SEMAPHORE_LIMIT
    /\ sm_waiting = 0
    /\ sm_holding = 0
    /\ sm_ended = 0
    /\ sm_attempts = [u \in PoolUsers |-> 0]
    /\ sm_records = 0

\* for i in range(0, len(usernames), BATCH_SIZE): one task per username of
\* the batch is created and gathered; with no batch left, return all_data
PoolLoop ==
    /\ sm_pc = "loop"
    /\ IF sm_i < sm_n
       THEN /\ sm_pc' = "gather"
            /\ sm_waiting' = Cardinality(Slice10(sm_i, sm_n))
            /\ sm_attempts' = [u \in PoolUsers |->
                                 sm_attempts[u] + IF u \in Slice10(sm_i, sm_n) THEN 1 ELSE 0]
       ELSE /\ sm_pc' = "returned"
            /\ UNCHANGED <<sm_waiting, sm_attempts>>
    /\ UNCHANGED <<sm_n, sm_i, sm_value, sm_holding, sm_ended, sm_records>>
    /\ UNCHANGED othersPool

\* a task enters "async with semaphore": Semaphore.acquire
PoolAcquire ==
    /\ sm_pc = "gather"
    /\ sm_waiting > 0
    /\ sm_value > 0
    /\ sm_value' = sm_value - 1
    /\ sm_waiting' = sm_waiting - 1
    /\ sm_holding' = sm_holding + 1
    /\ UNCHANGED <<sm_pc, sm_n, sm_i, sm_ended, sm_attempts, sm_records>>
    /\ UNCHANGED othersPool

\* a task leaves gather_user_data: with the record, with None for a user
\* that is not found, or with None from except Exception
PoolExit ==
    /\ sm_pc = "gather"
    /\ sm_holding > 0
    /\ \E path \in ExitPaths :
         /\ sm_value' = PermitsAfterExit(sm_value, path)
         /\ sm_records' = sm_records + IF path = "record" THEN 1 ELSE 0
    /\ sm_holding' = sm_holding - 1
    /\ sm_ended' = sm_ended + 1
    /\ UNCHANGED <<sm_pc, sm_n, sm_i, sm_waiting, sm_attempts>>
    /\ UNCHANGED othersPool

\* results = await asyncio.gather(*tasks) returns; all_data.extend; the sleep
PoolGathered ==
    /\ sm_pc = "gather"
    /\ sm_waiting = 0
    /\ sm_holding = 0
    /\ sm_ended' = 0
    /\ sm_i' = sm_i + BATCH_SIZE
    /\ sm_pc' = "loop"
    /\ UNCHANGED <<sm_n, sm_value, sm_waiting, sm_holding, sm_attempts, sm_records>>
    /\ UNCHANGED othersPool

NextPool ==
    \/ PoolLoop
    \/ PoolAcquire
    \/ PoolExit
    \/ PoolGathered

C29_PermitsAccounted ==
    /\ sm_holding <= 10
    /\ sm_value + sm_holding = 10
    /\ sm_pc = "returned" =>
         \A u \in PoolUsers : sm_attempts[u] = IF u <= sm_n THEN 1 ELSE 0

\* C29: in gather_all_user_data at most SEMAPHORE_LIMIT (10) identities hold
\* the semaphore at any time, the permit is released on every exit path of
\* gather_user_data (success, user not found, exception), and fetch_all_users
\* therefore always terminates with every input username attempted exactly
\* once.
C29_SemaphoreBoundedAndReleased ==
    /\ []C29_PermitsAccounted
    /\ <>(sm_pc = "returned")

C29_Witness ==
    /\ sm_n = 12
    /\ sm_i = 10
    /\ sm_pc = "gather"
    /\ sm_holding = 1
    /\ sm_ended = 1
    /\ sm_value = 9
    /\ sm_records = 5

C29_WitnessFullBatch ==
    /\ sm_n = 12
    /\ sm_holding = 10
    /\ sm_value = 0

(***************************************************************************)
(* The specifications, one per piece.                                      *)
(***************************************************************************)
StartCount == InitCount /\ NotesIdle /\ CommitsIdle /\ ResolveIdle /\ GatherIdle /\
    BatchIdle /\ DetailedIdle /\ AuthoredIdle /\ GradeIdle /\ CacheIdle /\ TotalsIdle /\
    CapIdle /\ MatcherIdle /\ PagingIdle /\ TallyIdle /\ SessionIdle /\ EntryIdle /\
    CommitCacheIdle /\ PoolIdle

SpecCount == StartCount /\ [][NextCount]_vars

StartNotes == InitNotes /\ CountIdle /\ CommitsIdle /\ ResolveIdle /\ GatherIdle /\
    BatchIdle /\ DetailedIdle /\ AuthoredIdle /\ GradeIdle /\ CacheIdle /\ TotalsIdle /\
    CapIdle /\ MatcherIdle /\ PagingIdle /\ TallyIdle /\ SessionIdle /\ EntryIdle /\
    CommitCacheIdle /\ PoolIdle

SpecNotes == StartNotes /\ [][NextNotes]_vars

StartCommits == InitCommits /\ CountIdle /\ NotesIdle /\ ResolveIdle /\ GatherIdle /\
    BatchIdle /\ DetailedIdle /\ AuthoredIdle /\ GradeIdle /\ CacheIdle /\ TotalsIdle /\
    CapIdle /\ MatcherIdle /\ PagingIdle /\ TallyIdle /\ SessionIdle /\ EntryIdle /\
    CommitCacheIdle /\ PoolIdle

SpecCommits == StartCommits /\ [][NextCommits]_vars

StartResolve == InitResolve /\ CountIdle /\ NotesIdle /\ CommitsIdle /\ GatherIdle /\
    BatchIdle /\ DetailedIdle /\ AuthoredIdle /\ GradeIdle /\ CacheIdle /\ TotalsIdle /\
    CapIdle /\ MatcherIdle /\ PagingIdle /\ TallyIdle /\ SessionIdle /\ EntryIdle /\
    CommitCacheIdle /\ PoolIdle

SpecResolve == StartResolve /\ [][NextResolve]_vars

StartGather == InitGather /\ CountIdle /\ NotesIdle /\ CommitsIdle /\ ResolveIdle /\
    BatchIdle /\ DetailedIdle /\ AuthoredIdle /\ GradeIdle /\ CacheIdle /\ TotalsIdle /\
    CapIdle /\ MatcherIdle /\ PagingIdle /\ TallyIdle /\ SessionIdle /\ EntryIdle /\
    CommitCacheIdle /\ PoolIdle

SpecGather == StartGather /\ [][NextGather]_vars

StartBatch == InitBatch /\ CountIdle /\ NotesIdle /\ CommitsIdle /\ ResolveIdle /\
    GatherIdle /\ DetailedIdle /\ AuthoredIdle /\ GradeIdle /\ CacheIdle /\ TotalsIdle
    /\ CapIdle /\ MatcherIdle /\ PagingIdle /\ TallyIdle /\ SessionIdle /\ EntryIdle /\
    CommitCacheIdle /\ PoolIdle

SpecBatch == StartBatch /\ [][NextBatch]_vars

StartDetailed == InitDetailed /\ CountIdle /\ NotesIdle /\ CommitsIdle /\ ResolveIdle /\
    GatherIdle /\ BatchIdle /\ AuthoredIdle /\ GradeIdle /\ CacheIdle /\ TotalsIdle /\
    CapIdle /\ MatcherIdle /\ PagingIdle /\ TallyIdle /\ SessionIdle /\ EntryIdle /\
    CommitCacheIdle /\ PoolIdle

SpecDetailed == StartDetailed /\ [][NextDetailed]_vars

StartAuthored == InitAuthored /\ CountIdle /\ NotesIdle /\ CommitsIdle /\ ResolveIdle /\
    GatherIdle /\ BatchIdle /\ DetailedIdle /\ GradeIdle /\ CacheIdle /\ TotalsIdle /\
    CapIdle /\ MatcherIdle /\ PagingIdle /\ TallyIdle /\ SessionIdle /\ EntryIdle /\
    CommitCacheIdle /\ PoolIdle

SpecAuthored == StartAuthored /\ [][NextAuthored]_vars

StartGrade == InitGrade /\ CountIdle /\ NotesIdle /\ CommitsIdle /\ ResolveIdle /\
    GatherIdle /\ BatchIdle /\ DetailedIdle /\ AuthoredIdle /\ CacheIdle /\ TotalsIdle
    /\ CapIdle /\ MatcherIdle /\ PagingIdle /\ TallyIdle /\ SessionIdle /\ EntryIdle /\
    CommitCacheIdle /\ PoolIdle

SpecGrade == StartGrade /\ [][NextGrade]_vars

StartCache == InitCache /\ CountIdle /\ NotesIdle /\ CommitsIdle /\ ResolveIdle /\
    GatherIdle /\ BatchIdle /\ DetailedIdle /\ AuthoredIdle /\ GradeIdle /\ TotalsIdle
    /\ CapIdle /\ MatcherIdle /\ PagingIdle /\ TallyIdle /\ SessionIdle /\ EntryIdle /\
    CommitCacheIdle /\ PoolIdle

SpecCache == StartCache /\ [][NextCache]_vars

StartTotals == InitTotals /\ CountIdle /\ NotesIdle /\ CommitsIdle /\ ResolveIdle /\
    GatherIdle /\ BatchIdle /\ DetailedIdle /\ AuthoredIdle /\ GradeIdle /\ CacheIdle /\
    CapIdle /\ MatcherIdle /\ PagingIdle /\ TallyIdle /\ SessionIdle /\ EntryIdle /\
    CommitCacheIdle /\ PoolIdle

SpecTotals == StartTotals /\ [][NextTotals]_vars

StartCap == InitCap /\ CountIdle /\ NotesIdle /\ CommitsIdle /\ ResolveIdle /\
    GatherIdle /\ BatchIdle /\ DetailedIdle /\ AuthoredIdle /\ GradeIdle /\ CacheIdle /\
    TotalsIdle /\ MatcherIdle /\ PagingIdle /\ TallyIdle /\ SessionIdle /\ EntryIdle /\
    CommitCacheIdle /\ PoolIdle

SpecCap == StartCap /\ [][NextCap]_vars

StartMatcher == InitMatcher /\ CountIdle /\ NotesIdle /\ CommitsIdle /\ ResolveIdle /\
    GatherIdle /\ BatchIdle /\ DetailedIdle /\ AuthoredIdle /\ GradeIdle /\ CacheIdle /\
    TotalsIdle /\ CapIdle /\ PagingIdle /\ TallyIdle /\ SessionIdle /\ EntryIdle /\
    CommitCacheIdle /\ PoolIdle

SpecMatcher == StartMatcher /\ [][NextMatcher]_vars

StartPaging == InitPaging /\ CountIdle /\ NotesIdle /\ CommitsIdle /\ ResolveIdle /\
    GatherIdle /\ BatchIdle /\ DetailedIdle /\ AuthoredIdle /\ GradeIdle /\ CacheIdle /\
    TotalsIdle /\ CapIdle /\ MatcherIdle /\ TallyIdle /\ SessionIdle /\ EntryIdle /\
    CommitCacheIdle /\ PoolIdle

SpecPaging == StartPaging /\ [][NextPaging]_vars

StartTally == InitTally /\ CountIdle /\ NotesIdle /\ CommitsIdle /\ ResolveIdle /\
    GatherIdle /\ BatchIdle /\ DetailedIdle /\ AuthoredIdle /\ GradeIdle /\ CacheIdle /\
    TotalsIdle /\ CapIdle /\ MatcherIdle /\ PagingIdle /\ SessionIdle /\ EntryIdle /\
    CommitCacheIdle /\ PoolIdle

SpecTally == StartTally /\ [][NextTally]_vars

StartSession == InitSession /\ CountIdle /\ NotesIdle /\ CommitsIdle /\ ResolveIdle /\
    GatherIdle /\ BatchIdle /\ DetailedIdle /\ AuthoredIdle /\ GradeIdle /\ CacheIdle /\
    TotalsIdle /\ CapIdle /\ MatcherIdle /\ PagingIdle /\ TallyIdle /\ EntryIdle /\
    CommitCacheIdle /\ PoolIdle

SpecSession == StartSession /\ [][NextSession]_vars

StartEntry == InitEntry /\ CountIdle /\ NotesIdle /\ CommitsIdle /\ ResolveIdle /\
    GatherIdle /\ BatchIdle /\ DetailedIdle /\ AuthoredIdle /\ GradeIdle /\ CacheIdle /\
    TotalsIdle /\ CapIdle /\ MatcherIdle /\ PagingIdle /\ TallyIdle /\ SessionIdle /\
    CommitCacheIdle /\ PoolIdle

SpecEntry == StartEntry /\ [][NextEntry]_vars

StartCommitCache == InitCommitCache /\ CountIdle /\ NotesIdle /\ CommitsIdle /\
    ResolveIdle /\ GatherIdle /\ BatchIdle /\ DetailedIdle /\ AuthoredIdle /\ GradeIdle
    /\ CacheIdle /\ TotalsIdle /\ CapIdle /\ MatcherIdle /\ PagingIdle /\ TallyIdle /\
    SessionIdle /\ EntryIdle /\ PoolIdle

SpecCommitCache == StartCommitCache /\ [][NextCommitCache]_vars

StartPool == InitPool /\ CountIdle /\ NotesIdle /\ CommitsIdle /\ ResolveIdle /\
    GatherIdle /\ BatchIdle /\ DetailedIdle /\ AuthoredIdle /\ GradeIdle /\ CacheIdle /\
    TotalsIdle /\ CapIdle /\ MatcherIdle /\ PagingIdle /\ TallyIdle /\ SessionIdle /\
    EntryIdle /\ CommitCacheIdle

SpecPool == StartPool /\ [][NextPool]_vars

\* the event loop resumes a coroutine whose response or error has arrived
SpecPagingLive == StartPaging /\ [][NextPaging]_vars /\ WF_vars(NextPaging)

\* the event loop resumes a coroutine whose response or error has arrived
SpecPoolLive == StartPool /\ [][NextPool]_vars /\ WF_vars(NextPool)

=============================================================================
